---------------------------- MODULE Spec2Model ----------------------------
(***************************************************************************)
(* Model of the Fybrk synchronisation engine (internal/sync), its Catalog  *)
(* (internal/storage MetadataStore), Chunker, Encryptor, FileWatcher and   *)
(* the MultiDeviceSync replicator over the PeerNetwork transport.          *)
(*                                                                         *)
(* Two devices, each with its own filesystem, Catalog, watcher event       *)
(* buffer and peer table, exchange file_list / file_request /              *)
(* file_response messages over one TCP connection.                         *)
(*                                                                         *)
(* Paths are sequences of path components; an absolute path starts with    *)
(* the component "/".  File contents are sequences of bytes.  SHA-256 is   *)
(* modelled as an injective function of the hashed bytes, AES-256-GCM as a *)
(* sealed box that opens only under the same key when left intact.         *)
(***************************************************************************)
EXTENDS Integers, Sequences, FiniteSets, TLC

(***************************************************************************)
(* Bounds of the model.                                                    *)
(***************************************************************************)
MaxClock == 3          \* file writes in a run (user writes and received files)
MaxVersion == 3        \* largest version a scan may start from
MaxQueue == 1          \* a broadcast starts when every direction holds fewer messages
MaxLen == 3            \* length of the longest file content
MaxTamper == 1         \* number of in-flight chunks the network may alter
EngineChunkSize == 1   \* chunk size the engines are configured with
MaxBuffer == 7         \* length of the longest buffer given to a Chunker
MaxChunkSize == 3      \* largest chunk size a Chunker is built with
MaxEnable == 2         \* calls of EnableMultiDeviceSync on one engine
MaxClose == 2          \* calls of Close on one engine
MaxNotes == 2          \* fsnotify notifications not yet read by FileWatcher.run
MaxCycles == 2         \* ticks of periodicSync in a run of the hub

(***************************************************************************)
(* Program constants (scaled where noted).                                 *)
(***************************************************************************)
DefaultChunkSize == 2  \* storage.DefaultChunkSize (1 MiB), scaled to 2 bytes
EventCap == 2          \* capacity of FileWatcher.events (100), scaled to 2
NonceSize == 12        \* gcm.NonceSize()
TagSize == 16          \* gcm.Overhead()
ProtocolVersion == 1   \* UniversalSyncProtocol.version
ErrorCap == 3          \* capacity of FileWatcher.errors (10), scaled to 3
CoreEventCap == 2      \* capacity of core.Watcher.events (100), scaled to 2
ContentLimit == 2      \* size from which broadcastEvent sends no content (1 MiB), scaled to 2 bytes
SendCap == 2           \* capacity of core.Peer.SendCh (100), scaled to 2

Devices == {"device-1", "device-2"}
SharedKey == "K"
OtherKey == "K2"

NoFile == [absent |-> TRUE]
NoMeta == [notfound |-> TRUE]
ZeroHash == <<"zero", << >> >>

(***************************************************************************)
(* Paths (path/filepath).                                                  *)
(***************************************************************************)
RootAbs == <<"/", "sync">>          \* where the sync root really is
WorkAbs == <<"/", "work">>          \* a working directory that is not the sync root
OutsideAbs == <<"/", "outside.txt">> \* a file next to the sync root, in its parent

\* The configurations an engine is started in: NewEngine takes syncPath as
\* given (absolute, or "." modelled as the empty path), and relative paths
\* are resolved by the OS against the process working directory.
Starts ==
  { [syncPath |-> RootAbs, cwd |-> RootAbs],
    [syncPath |-> RootAbs, cwd |-> WorkAbs],
    [syncPath |-> << >>,   cwd |-> RootAbs] }

IsAbs(p) == Len(p) > 0 /\ p[1] = "/"

Join(dir, p) == dir \o p

Base(p) == IF Len(p) = 0 THEN << >> ELSE <<p[Len(p)]>>

RECURSIVE CommonLen(_, _)
CommonLen(a, b) ==
  IF Len(a) = 0 \/ Len(b) = 0 \/ Head(a) # Head(b) THEN 0
  ELSE 1 + CommonLen(Tail(a), Tail(b))

\* filepath.Rel(basepath, targpath): [err, path]
Rel(basepath, targpath) ==
  IF IsAbs(basepath) # IsAbs(targpath) THEN [err |-> TRUE, path |-> << >>]
  ELSE LET n == CommonLen(basepath, targpath)
       IN  [err |-> FALSE,
            path |-> [j \in 1..(Len(basepath) - n) |-> ".."]
                       \o SubSeq(targpath, n + 1, Len(targpath))]

\* The files users create under the sync root, relative to it.
UserPaths == { <<"a.txt">>, <<"sub", "b.txt">>, <<".fybrk", "key">> }

\* The files the user of a single engine works on; .fybrk/key is rewritten
\* when the key is regenerated.
EngineFiles == { <<"a.txt">>, <<".fybrk", "key">> }

\* Every place under the sync root where a file can come to exist.
FsRel == UserPaths \cup { <<"b.txt">>, <<"key">> }

\* Every place of the filesystem where a file can come to exist.
Locs == { Join(RootAbs, p) : p \in FsRel } \cup { OutsideAbs }

\* filepath.Walk visits directory entries in lexical order.
WalkOrder ==
  << <<".fybrk", "key">>, <<"a.txt">>, <<"b.txt">>, <<"key">>, <<"sub", "b.txt">> >>

\* Every path a Catalog can hold, in the byte order of the path strings
\* (SQLite ORDER BY path): '.' < '/' < 'a' < 'b' < 'k' < 's'.
AllPathsSorted ==
  << <<"..", "outside.txt">>, <<".fybrk", "key">>,
     <<"/", "sync", "a.txt">>, <<"/", "sync", "b.txt">>, <<"/", "sync", "key">>,
     <<"a.txt">>, <<"b.txt">>, <<"key">>, <<"sub", "b.txt">> >>

UnderFybrk(relPath) == Len(relPath) > 0 /\ relPath[1] = ".fybrk"

(***************************************************************************)
(* File contents.                                                          *)
(***************************************************************************)
Pattern(n) == [i \in 1..n |-> IF i % 2 = 1 THEN 1 ELSE 2]

\* What the user of a single engine writes: a short and a long content.
WriteContents == { Pattern(1), Pattern(MaxLen) }

\* What the user of two replicating engines writes: the long content, which
\* travels as more than one chunk.
SyncContents == { Pattern(MaxLen) }

Sha256(data) == <<"sha256", data>>

(***************************************************************************)
(* Chunker (internal/storage).                                             *)
(***************************************************************************)
Min(a, b) == IF a < b THEN a ELSE b

\* NewChunker: a non-positive size falls back to the default.
NewChunker(chunkSize) == IF chunkSize <= 0 THEN DefaultChunkSize ELSE chunkSize

\* The read loop of ChunkFile over the bytes of an open file.
RECURSIVE SplitBytes(_, _)
SplitBytes(data, chunkSize) ==
  IF Len(data) = 0 THEN << >>
  ELSE LET n == Min(chunkSize, Len(data))
           chunkData == SubSeq(data, 1, n)
       IN  << [Hash |-> Sha256(chunkData), Data |-> chunkData,
               Size |-> n, Encrypted |-> FALSE] >>
             \o SplitBytes(SubSeq(data, n + 1, Len(data)), chunkSize)

RECURSIVE ReassembleChunks(_)
ReassembleChunks(chunks) ==
  IF Len(chunks) = 0 THEN << >>
  ELSE Head(chunks).Data \o ReassembleChunks(Tail(chunks))

(***************************************************************************)
(* Encryptor (internal/storage).                                           *)
(***************************************************************************)
\* gcm.Seal(nonce, nonce, data, nil): nonce || ciphertext || tag
Seal(key, nonce, data) ==
  [key |-> key, nonce |-> nonce, pt |-> data, intact |-> TRUE,
   len |-> NonceSize + Len(data) + TagSize]

\* The length of a chunk's buffer, sealed or not.
BufLen(chunk) == IF chunk.Encrypted THEN chunk.Data.len ELSE Len(chunk.Data)

\* EncryptChunk without the early return: a sealed buffer is sealed again.
EncryptChunkAgain(key, nonce, chunk) ==
  [chunk EXCEPT !.Data = [key |-> key, nonce |-> nonce, pt |-> chunk.Data,
                          intact |-> TRUE,
                          len |-> NonceSize + BufLen(chunk) + TagSize],
                !.Encrypted = TRUE]

\* EncryptChunk that rehashes the buffer it has sealed.
EncryptChunkRehash(key, nonce, chunk) ==
  IF chunk.Encrypted THEN chunk
  ELSE [chunk EXCEPT !.Data = Seal(key, nonce, chunk.Data), !.Encrypted = TRUE,
                     !.Hash = Sha256(<<nonce>> \o chunk.Data)]

EncryptChunk(key, nonce, chunk) ==
  IF chunk.Encrypted THEN chunk
  ELSE [chunk EXCEPT !.Data = Seal(key, nonce, chunk.Data), !.Encrypted = TRUE]

\* DecryptChunk that clears the flag before it opens the buffer.
DecryptChunkClearsFlag(key, chunk) ==
  IF ~chunk.Encrypted THEN [err |-> FALSE, chunk |-> chunk]
  ELSE IF chunk.Data.len < NonceSize \/ chunk.Data.key # key \/ ~chunk.Data.intact
    THEN [err |-> TRUE, chunk |-> [chunk EXCEPT !.Encrypted = FALSE]]
  ELSE [err |-> FALSE,
        chunk |-> [chunk EXCEPT !.Data = chunk.Data.pt, !.Encrypted = FALSE]]

\* DecryptChunk: [err, chunk], the error returned and the chunk after the call
DecryptChunk(key, chunk) ==
  IF ~chunk.Encrypted THEN [err |-> FALSE, chunk |-> chunk]
  ELSE IF chunk.Data.len < NonceSize THEN [err |-> TRUE, chunk |-> chunk]
  ELSE IF chunk.Data.key # key \/ ~chunk.Data.intact
    THEN [err |-> TRUE, chunk |-> chunk]
  ELSE [err |-> FALSE,
        chunk |-> [chunk EXCEPT !.Data = chunk.Data.pt, !.Encrypted = FALSE]]

(***************************************************************************)
(* MetadataStore (the Catalog): a map from path to FileMetadata.           *)
(***************************************************************************)
\* INSERT OR IGNORE in place of INSERT OR REPLACE: the first row of a path stays.
StoreFileMetadataKeepFirst(cat, metadata) ==
  [k \in DOMAIN cat \cup {metadata.Path} |->
     IF k \in DOMAIN cat THEN cat[k] ELSE metadata]

\* INSERT OR REPLACE INTO files, path being the primary key
StoreFileMetadata(cat, metadata) ==
  [k \in DOMAIN cat \cup {metadata.Path} |->
     IF k = metadata.Path THEN metadata ELSE cat[k]]

GetFileMetadata(cat, path) == IF path \in DOMAIN cat THEN cat[path] ELSE NoMeta

\* DELETE FROM files without the WHERE clause.
DeleteFileMetadataEveryRow(cat, path) == [k \in {} |-> NoMeta]

\* DELETE FROM files WHERE path = ?
DeleteFileMetadata(cat, path) == [k \in DOMAIN cat \ {path} |-> cat[k]]

RECURSIVE ListFrom(_, _)
ListFrom(cat, order) ==
  IF Len(order) = 0 THEN << >>
  ELSE (IF Head(order) \in DOMAIN cat THEN <<cat[Head(order)]>> ELSE << >>)
         \o ListFrom(cat, Tail(order))

ListFiles(cat) == ListFrom(cat, AllPathsSorted)

EmptyCatalog == [k \in {} |-> NoMeta]


(***************************************************************************)
(* State.                                                                  *)
(***************************************************************************)
VARIABLES
  cfg,       \* how the engines were started: [syncPath, cwd], and the files
             \* and contents the user works with in this run
  fs,        \* fs[d][loc]: the file at absolute location loc of device d, or NoFile
  catalog,   \* catalog[d]: the MetadataStore of device d, path -> FileMetadata
  events,    \* events[d]: the buffered channel FileWatcher.events of device d
  peers,     \* peers[d]: the keys of PeerNetwork.peers of device d
  conn,      \* whether the TCP connection between the two devices is open
  chan,      \* chan[<<from, to>>]: messages written to the connection, not yet read
  clock,     \* clock[d]: the time of the last file write on device d
  tampers,   \* number of chunks altered in flight so far
  life,      \* life[d]: the goroutines, channels and PeerNetworks of the engine of
             \* device d
  rw,        \* rw[d][p]: the last local rewrite of tracked file p: the version its
             \* record held when the file was rewritten
  last       \* the last operation run: its inputs, what it sent, wrote and stored

vars == <<cfg, fs, catalog, events, peers, conn, chan, clock, tampers, life, rw, last>>

Other(d) == CHOOSE e \in Devices : e # d

(***************************************************************************)
(* Operating system: path resolution and stat.                             *)
(***************************************************************************)
Resolve(path) == IF IsAbs(path) THEN path ELSE Join(cfg.cwd, path)

\* os.Stat / os.Open on device filesystem fsd
Stat(fsd, path) ==
  LET loc == Resolve(path) IN IF loc \in Locs THEN fsd[loc] ELSE NoFile

\* the absolute location of sync-root/relPath
RootLoc(relPath) == Join(RootAbs, relPath)

\* the path under which the OS (walk, fsnotify) reports sync-root/relPath
OsPath(relPath) == Join(cfg.syncPath, relPath)

(***************************************************************************)
(* FileWatcher.handleEvent: non-blocking send on the bounded channel.      *)
(***************************************************************************)
handleEvent(evs, event) ==
  IF Len(evs) < EventCap THEN Append(evs, event) ELSE evs

(***************************************************************************)
(* Engine (internal/sync/engine.go).                                       *)
(***************************************************************************)
RECURSIVE HashesOf(_)
HashesOf(chunks) ==
  IF Len(chunks) = 0 THEN << >>
  ELSE <<Head(chunks).Hash>> \o HashesOf(Tail(chunks))

\* A file the process has no permission to read (mode 000): os.Stat and the
\* directory listing succeed on it, os.Open fails.
Denied(f) == "denied" \in DOMAIN f

\* ChunkFile that keeps full buffers only: the short read before EOF is lost.
ChunkFileFullBuffers(fsd, chunkSize, filePath) ==
  LET f == Stat(fsd, filePath)
  IN  IF f = NoFile \/ Denied(f) THEN [err |-> TRUE, chunks |-> << >>]
      ELSE [err |-> FALSE,
            chunks |-> SelectSeq(SplitBytes(f.data, chunkSize),
                                 LAMBDA c : c.Size = chunkSize)]

\* ChunkFile that appends a chunk for the read that returns EOF.
ChunkFileEofChunk(fsd, chunkSize, filePath) ==
  LET f == Stat(fsd, filePath)
  IN  IF f = NoFile \/ Denied(f) THEN [err |-> TRUE, chunks |-> << >>]
      ELSE [err |-> FALSE,
            chunks |-> Append(SplitBytes(f.data, chunkSize),
                              [Hash |-> Sha256(<< >>), Data |-> << >>,
                               Size |-> 0, Encrypted |-> FALSE])]

\* ChunkFile(filePath) of a chunker of the given size: [err, chunks]
ChunkFile(fsd, chunkSize, filePath) ==
  LET f == Stat(fsd, filePath)
  IN  IF f = NoFile \/ Denied(f) THEN [err |-> TRUE, chunks |-> << >>]
      ELSE [err |-> FALSE, chunks |-> SplitBytes(f.data, chunkSize)]

\* processFile: [err, cat]
processFile(fsd, cat, filePath, relPath) ==
  LET info == Stat(fsd, filePath)
  IN  IF info = NoFile \/ ChunkFile(fsd, NewChunker(EngineChunkSize), filePath).err
      THEN [err |-> TRUE, cat |-> cat]
      ELSE LET chunks == ChunkFile(fsd, NewChunker(EngineChunkSize), filePath)
               existing == GetFileMetadata(cat, relPath)
               version == IF existing = NoMeta THEN 1 ELSE existing.Version + 1
               metadata == [Path |-> relPath,
                            Hash |-> Sha256(info.data),
                            Size |-> Len(info.data),
                            ModTime |-> info.mtime,
                            Chunks |-> HashesOf(chunks.chunks),
                            Version |-> version]
           IN  [err |-> FALSE, cat |-> StoreFileMetadata(cat, metadata)]

\* handleFileChange: the Catalog after the call
handleFileChange(fsd, cat, filePath) ==
  LET info == Stat(fsd, filePath)
      relPath == Rel(cfg.syncPath, filePath)
  IN  IF info = NoFile \/ relPath.err THEN cat
      ELSE LET existing == GetFileMetadata(cat, relPath.path)
           IN  IF existing # NoMeta /\ info.mtime = existing.ModTime
                                    /\ Len(info.data) = existing.Size
               THEN cat
               ELSE processFile(fsd, cat, filePath, relPath.path).cat

\* handleFileRemoval: the Catalog after the call
handleFileRemoval(cat, filePath) ==
  LET relPath == Rel(cfg.syncPath, filePath)
  IN  IF relPath.err THEN cat ELSE DeleteFileMetadata(cat, relPath.path)

\* processFileEvent: the Catalog after the call
processFileEvent(fsd, cat, event) ==
  LET relPath == Rel(cfg.syncPath, event.Path)
  IN  IF relPath.err \/ IsAbs(relPath.path) THEN cat
      ELSE IF event.Operation \in {"create", "write"}
             THEN handleFileChange(fsd, cat, event.Path)
      ELSE IF event.Operation = "remove"
             THEN handleFileRemoval(cat, event.Path)
      ELSE cat

\* The walk of ScanDirectory over the regular files under syncPath, in walk
\* order; the callback's error ends the walk.
RECURSIVE WalkFrom(_, _, _)
WalkFrom(fsd, cat, order) ==
  IF Len(order) = 0 THEN cat
  ELSE LET relPath == Head(order)
           path == OsPath(relPath)
           rel == Rel(cfg.syncPath, path)
       IN  IF fsd[RootLoc(relPath)] = NoFile
           THEN WalkFrom(fsd, cat, Tail(order))
           ELSE IF rel.err THEN cat
           ELSE LET r == processFile(fsd, cat, path, rel.path)
                IN  IF r.err THEN r.cat ELSE WalkFrom(fsd, r.cat, Tail(order))

ScanDirectory(fsd, cat) == WalkFrom(fsd, cat, WalkOrder)

(***************************************************************************)
(* MultiDeviceSync (internal/sync/multidevice.go).                         *)
(***************************************************************************)
NoMsg == [Type |-> "none"]

SyncMsg(deviceID, data) == [Type |-> "sync", DeviceID |-> deviceID, Data |-> data]

\* requestFile: the message handed to SendMessage
requestFile(deviceID, fileMetadata) ==
  SyncMsg(deviceID, [Type |-> "file_request",
                     Request |-> [Path |-> fileMetadata.Path,
                                  Chunks |-> fileMetadata.Chunks]])

\* handleFileList as it would be if a version tie also asked for the file
handleFileListOnTie(deviceID, cat, remoteFiles) ==
  LET need(remoteFile) ==
        \/ remoteFile.Path \notin DOMAIN cat
        \/ cat[remoteFile.Path].Version <= remoteFile.Version
      wanted == SelectSeq(remoteFiles, need)
  IN  [i \in 1..Len(wanted) |-> requestFile(deviceID, wanted[i])]

\* handleFileList: the messages handed to SendMessage(deviceID, _), in the
\* order of the loop over remoteFiles
handleFileList(deviceID, cat, remoteFiles) ==
  LET need(remoteFile) ==
        LET exists == remoteFile.Path \in DOMAIN cat
        IN  ~exists \/ cat[remoteFile.Path].Version < remoteFile.Version
      wanted == SelectSeq(remoteFiles, need)
  IN  [i \in 1..Len(wanted) |-> requestFile(deviceID, wanted[i])]

RECURSIVE EncryptAll(_, _, _)
EncryptAll(key, nonce, chunks) ==
  IF Len(chunks) = 0 THEN << >>
  ELSE <<EncryptChunk(key, nonce, Head(chunks))>>
         \o EncryptAll(key, nonce, Tail(chunks))

\* getFileChunks: [err, chunks], the sealed chunks or an error
getFileChunks(fsd, cat, nonce, path) ==
  LET fileMetadata == GetFileMetadata(cat, path)
  IN  IF fileMetadata = NoMeta
      THEN [err |-> "file not found", chunks |-> << >>]
      ELSE LET chunks == ChunkFile(fsd, NewChunker(DefaultChunkSize),
                                   fileMetadata.Path)
           IN  IF chunks.err
               THEN [err |-> "failed to chunk file", chunks |-> << >>]
               ELSE [err |-> "nil",
                     chunks |-> EncryptAll(SharedKey, nonce, chunks.chunks)]

\* handleFileRequest: the messages sent back
handleFileRequest(deviceID, fsd, cat, nonce, request) ==
  LET chunks == getFileChunks(fsd, cat, nonce, request.Path)
  IN  IF chunks.err # "nil" THEN << >>
      ELSE << SyncMsg(deviceID, [Type |-> "file_response",
                                 Response |-> [Path |-> request.Path,
                                               Chunks |-> chunks.chunks]]) >>

\* The decryption loop of handleFileResponse: [err, chunks], the chunks
\* opened before the loop ended, and whether it ended on an error.
RECURSIVE DecryptAll(_, _)
DecryptAll(key, chunks) ==
  IF Len(chunks) = 0 THEN [err |-> FALSE, chunks |-> << >>]
  ELSE LET c == DecryptChunk(key, Head(chunks))
       IN  IF c.err THEN [err |-> TRUE, chunks |-> << >>]
           ELSE LET rest == DecryptAll(key, Tail(chunks))
                IN  [err |-> rest.err, chunks |-> <<c.chunk>> \o rest.chunks]

\* writeReceivedFile: the device state after the call
writeReceivedFile(st, path, data) ==
  LET fullPath == Join(cfg.syncPath, Base(path))
      loc == Resolve(fullPath)
      old == st.fs[loc]
      file == [data |-> data, mtime |-> st.clock + 1]
      fs2 == [st.fs EXCEPT ![loc] = file]
      chunks == ChunkFile(fs2, NewChunker(DefaultChunkSize), fullPath)
      metadata == [Path |-> fullPath,
                   Hash |-> ZeroHash,
                   Size |-> Len(data),
                   ModTime |-> file.mtime,
                   Chunks |-> HashesOf(chunks.chunks),
                   Version |-> 1]
  IN  [fs |-> fs2,
       clock |-> st.clock + 1,
       events |-> handleEvent(st.events,
                    [Path |-> fullPath,
                     Operation |-> IF old = NoFile THEN "create" ELSE "write"]),
       cat |-> StoreFileMetadata(st.cat, metadata),
       written |-> {loc},
       stored |-> {fullPath}]

Untouched(st) == [st EXCEPT !.written = {}, !.stored = {}]

\* handleFileResponse as it would be if the chunks opened before a failing
\* one were written out
handleFileResponsePartial(st, response) ==
  LET opened == DecryptAll(SharedKey, response.Chunks)
  IN  IF opened.err /\ opened.chunks = << >> THEN Untouched(st)
      ELSE writeReceivedFile(st, response.Path, ReassembleChunks(opened.chunks))

\* handleFileResponse: the device state after the call
handleFileResponse(st, response) ==
  LET opened == DecryptAll(SharedKey, response.Chunks)
  IN  IF opened.err THEN Untouched(st)
      ELSE writeReceivedFile(st, response.Path, ReassembleChunks(opened.chunks))

(***************************************************************************)
(* PeerNetwork (internal/network/peer.go).                                 *)
(***************************************************************************)
\* updatePeer: the keys of the peer table after the call
updatePeer(self, table, deviceID) ==
  IF deviceID = self THEN table ELSE table \cup {deviceID}

\* SendMessage(deviceID, msg) for each msg of msgs: what reaches the connection
SendMessage(table, deviceID, msgs) ==
  IF deviceID \notin table THEN << >> ELSE msgs

(***************************************************************************)
(* Bookkeeping for the properties.                                         *)
(***************************************************************************)
\* rw[d][p] when p has no local rewrite to account for
NotApplicable == [pending |-> FALSE]

\* rw[d][p] after a rewrite of p made while its record held the given version
RewriteOf(version) == [pending |-> TRUE, before |-> version]

Matches(cat, fsd, relPath) ==
  /\ relPath \in DOMAIN cat
  /\ fsd[RootLoc(relPath)] # NoFile
  /\ cat[relPath].Size = Len(fsd[RootLoc(relPath)].data)
  /\ cat[relPath].ModTime = fsd[RootLoc(relPath)].mtime

\* rw[d] after an operation left device d with Catalog cat2: a path that is
\* not in the Catalog has no pending rewrite
RwAfter(rwd, cat2) ==
  [p \in FsRel |-> IF p \in DOMAIN cat2 THEN rwd[p] ELSE NotApplicable]

Record(op, d, from, msg, sent, written, stored) ==
  [op |-> op, dev |-> d, from |-> from, msg |-> msg,
   sent |-> sent,
   written |-> written, stored |-> stored]

(***************************************************************************)
(* Initial state: both engines constructed on a sync root that holds only  *)
(* the reserved directory with the key file; empty Catalogs; not connected.*)
(***************************************************************************)
KeyFile == [data |-> Pattern(1), mtime |-> 0]

\* The layout of the command line front-end: .fybrk/key under the sync root.
CliLayout == [loc \in Locs |->
                IF loc = RootLoc(<<".fybrk", "key">>) THEN KeyFile ELSE NoFile]

\* The layout of the integration tests: key and database outside the sync root.
TestLayout == [loc \in Locs |-> NoFile]

\* A PeerNetwork after NewPeerNetwork(deviceID, port) and Start(): its
\* listener, its context, and the goroutines acceptConnections and
\* periodicSync of the MultiDeviceSync that owns it.
StartedNetwork(port) ==
  [port |-> port, listening |-> TRUE, cancelled |-> FALSE,
   accept |-> "running", periodic |-> "running"]

\* An engine after NewEngine: the FileWatcher's done channel is open, its run
\* goroutine and the engine's handleFileEvents goroutine are running, and
\* multiDevice is nil (nets is empty; multiDevice is the last of nets).
Standalone ==
  [done |-> FALSE, panicked |-> FALSE, closes |-> 0,
   run |-> "running", drain |-> "running", nets |-> << >>, errors |-> << >>]

\* An engine after NewEngine and EnableMultiDeviceSync(0).
Replicating == [Standalone EXCEPT !.nets = <<StartedNetwork(0)>>]

Constructed ==
  /\ catalog = [d \in Devices |-> EmptyCatalog]
  /\ events = [d \in Devices |-> << >>]
  /\ peers = [d \in Devices |-> {}]
  /\ conn = FALSE
  /\ chan = [c \in Devices \X Devices |-> << >>]
  /\ clock = [d \in Devices |-> 0]
  /\ tampers = 0
  /\ rw = [d \in Devices |-> [p \in FsRel |-> NotApplicable]]
  /\ last = [op |-> "init", dev |-> "device-1", from |-> "device-1",
             msg |-> NoMsg, sent |-> << >>,
             written |-> {}, stored |-> {}]

\* Two engines in the layout of the integration tests; the user works on one file.
Init ==
  /\ \E s \in Starts, p \in {<<"a.txt">>, <<"sub", "b.txt">>} :
       cfg = [syncPath |-> s.syncPath, cwd |-> s.cwd, files |-> {p},
              contents |-> SyncContents]
  /\ fs = [d \in Devices |-> TestLayout]
  /\ life = [d \in Devices |-> Replicating]
  /\ Constructed

\* One engine in the layout of the command line front-end.
EngineInit ==
  /\ \E s \in Starts :
       cfg = [syncPath |-> s.syncPath, cwd |-> s.cwd, files |-> EngineFiles,
              contents |-> WriteContents]
  /\ fs = [d \in Devices |-> CliLayout]
  /\ life = [d \in Devices |-> Standalone]
  /\ Constructed

(***************************************************************************)
(* The user writes, rewrites or removes a file under the sync root; the    *)
(* FileWatcher turns the notification into an event.                       *)
(***************************************************************************)
UserWrite(d, p, data) ==
  LET loc == RootLoc(p)
      old == fs[d][loc]
  IN  /\ clock["device-1"] + clock["device-2"] < MaxClock
      /\ fs' = [fs EXCEPT ![d][loc] = [data |-> data, mtime |-> clock[d] + 1]]
      /\ clock' = [clock EXCEPT ![d] = @ + 1]
      /\ events' = [events EXCEPT ![d] =
                      handleEvent(@, [Path |-> OsPath(p),
                                      Operation |-> IF old = NoFile THEN "create"
                                                                    ELSE "write"])]
      /\ rw' = [rw EXCEPT ![d][p] =
                  IF old # NoFile /\ Matches(catalog[d], fs[d], p)
                  THEN RewriteOf(catalog[d][p].Version) ELSE NotApplicable]
      /\ last' = Record("UserWrite", d, d, NoMsg, << >>, {loc}, {})
      /\ UNCHANGED <<cfg, life, catalog, peers, conn, chan, tampers>>

UserRemove(d, p) ==
  LET loc == RootLoc(p)
  IN  /\ fs[d][loc] # NoFile
      /\ fs' = [fs EXCEPT ![d][loc] = NoFile]
      /\ events' = [events EXCEPT ![d] =
                      handleEvent(@, [Path |-> OsPath(p), Operation |-> "remove"])]
      /\ rw' = [rw EXCEPT ![d][p] = NotApplicable]
      /\ last' = Record("UserRemove", d, d, NoMsg, << >>, {loc}, {})
      /\ UNCHANGED <<cfg, life, catalog, peers, conn, chan, clock, tampers>>

(***************************************************************************)
(* Engine.handleFileEvents: one iteration, taking one event.               *)
(***************************************************************************)
ProcessEvent(d) ==
  /\ events[d] # << >>
  /\ LET event == Head(events[d])
         cat2 == processFileEvent(fs[d], catalog[d], event)
     IN  /\ catalog' = [catalog EXCEPT ![d] = cat2]
         /\ rw' = [rw EXCEPT ![d] = RwAfter(@, cat2)]
         /\ last' = Record("processFileEvent", d, d,
                           [Type |-> "event", Event |-> event], << >>, {},
                           {k \in DOMAIN cat2 :
                              k \notin DOMAIN catalog[d] \/ cat2[k] # catalog[d][k]})
  /\ events' = [events EXCEPT ![d] = Tail(@)]
  /\ UNCHANGED <<cfg, life, fs, peers, conn, chan, clock, tampers>>

(***************************************************************************)
(* Engine.ScanDirectory.                                                   *)
(***************************************************************************)
Scan(d) ==
  /\ \A k \in DOMAIN catalog[d] : catalog[d][k].Version < MaxVersion
  /\ LET cat2 == ScanDirectory(fs[d], catalog[d])
     IN  /\ catalog' = [catalog EXCEPT ![d] = cat2]
         /\ rw' = [rw EXCEPT ![d] = RwAfter(@, cat2)]
         /\ last' = Record("ScanDirectory", d, d, NoMsg, << >>, {},
                           {p \in FsRel : fs[d][RootLoc(p)] # NoFile})
  /\ UNCHANGED <<cfg, life, fs, events, peers, conn, chan, clock, tampers>>

(***************************************************************************)
(* PeerNetwork.tryConnect: d dials e and announces itself.                 *)
(***************************************************************************)
TryConnect(d) ==
  /\ ~conn
  /\ conn' = TRUE
  /\ chan' = [chan EXCEPT ![<<d, Other(d)>>] =
                Append(@, [Type |-> "discovery", DeviceID |-> d, Data |-> NoMsg])]
  /\ last' = Record("tryConnect", d, d, NoMsg, << >>, {}, {})
  /\ UNCHANGED <<cfg, life, fs, catalog, events, peers, clock, tampers, rw>>

(***************************************************************************)
(* MultiDeviceSync.broadcastFileList, run on every tick of periodicSync.   *)
(* With an empty peer table the broadcast sends nothing, and Encode on a   *)
(* closed connection fails.  A tick is taken when the connection has       *)
(* drained, so one broadcast cycle runs at a time.                         *)
(***************************************************************************)
BroadcastFileList(d) ==
  /\ peers[d] # {}
  /\ \A c \in Devices \X Devices : Len(chan[c]) < MaxQueue
  /\ LET msg == SyncMsg(d, [Type |-> "file_list", Files |-> ListFiles(catalog[d])])
     IN  /\ chan' = [c \in Devices \X Devices |->
                       IF c[1] = d /\ c[2] \in peers[d] /\ conn
                       THEN Append(chan[c], msg) ELSE chan[c]]
         /\ last' = Record("broadcastFileList", d, d, NoMsg, <<msg>>, {}, {})
  /\ UNCHANGED <<cfg, life, fs, catalog, events, peers, conn, clock, tampers, rw>>

(***************************************************************************)
(* PeerNetwork.handleConnection: one iteration, decoding one message from  *)
(* the connection, registering the sender and calling handleMessage.       *)
(***************************************************************************)
StateOf(d) ==
  [fs |-> fs[d], clock |-> clock[d], events |-> events[d], cat |-> catalog[d],
   written |-> {}, stored |-> {}]

IsSync(msg, type) == msg.Type = "sync" /\ msg.Data.Type = type

\* handleMessage: [st, sent], the device state after the call and the
\* messages handed to SendMessage(deviceID, _)
handleMessage(d, deviceID, msg, nonce) ==
  IF msg.Type # "sync" THEN [st |-> StateOf(d), sent |-> << >>]
  ELSE IF msg.Data.Type = "file_list"
    THEN [st |-> StateOf(d),
          sent |-> handleFileList(d, catalog[d], msg.Data.Files)]
  ELSE IF msg.Data.Type = "file_request"
    THEN [st |-> StateOf(d),
          sent |-> handleFileRequest(d, fs[d], catalog[d], nonce, msg.Data.Request)]
  ELSE IF msg.Data.Type = "file_response"
    THEN [st |-> handleFileResponse(StateOf(d), msg.Data.Response), sent |-> << >>]
  ELSE [st |-> StateOf(d), sent |-> << >>]

Nonces == {1}

\* What arrives on a connection: a network.Message as its sender encoded it
\* (a peer may add fields, such as a protocol version), or bytes that are
\* no JSON value.
Malformed == [Type |-> "malformed"]

\* decoder.Decode(&msg): [err, msg]; fields that network.Message does not
\* have are dropped.
DecodeMessage(wire) ==
  IF wire = Malformed THEN [err |-> TRUE, msg |-> NoMsg]
  ELSE [err |-> FALSE,
        msg |-> [Type |-> wire.Type, DeviceID |-> wire.DeviceID, Data |-> wire.Data]]

\* The decode error ends handleConnection, whose deferred conn.Close()
\* closes the connection.
DecodeFails(from, d) ==
  /\ conn' = FALSE
  /\ chan' = [c \in Devices \X Devices |-> << >>]
  /\ last' = Record("handleConnection", d, from, Malformed, << >>, {}, {})
  /\ UNCHANGED <<cfg, life, fs, catalog, events, peers, clock, tampers, rw>>

\* A handleConnection that decodes the newest message of the connection.
ReceivedNewest(queue) == queue[Len(queue)]

\* What decoder.Decode reads next from the connection: the oldest message
\* not yet read; one goroutine reads a connection and handles each message
\* before it decodes the next.
Received(queue) == Head(queue)

Deliver(from, d) ==
  /\ chan[<<from, d>>] # << >>
  /\ IF DecodeMessage(Received(chan[<<from, d>>])).err THEN DecodeFails(from, d) ELSE
     LET wire == Received(chan[<<from, d>>])
         msg == DecodeMessage(wire).msg
         table == updatePeer(d, peers[d], msg.DeviceID)
     IN  /\ UNCHANGED <<cfg, life, conn, tampers>>
         /\ IsSync(msg, "file_response") =>
              clock["device-1"] + clock["device-2"] < MaxClock
         /\ \E nonce \in Nonces :
              LET r == handleMessage(d, msg.DeviceID, msg, nonce)
                  out == SendMessage(table, msg.DeviceID, r.sent)
              IN  /\ peers' = [peers EXCEPT ![d] = table]
                  /\ fs' = [fs EXCEPT ![d] = r.st.fs]
                  /\ clock' = [clock EXCEPT ![d] = r.st.clock]
                  /\ events' = [events EXCEPT ![d] = r.st.events]
                  /\ catalog' = [catalog EXCEPT ![d] = r.st.cat]
                  /\ rw' = [rw EXCEPT ![d] =
                              [p \in FsRel |->
                                 IF RootLoc(p) \in r.st.written
                                 THEN NotApplicable ELSE rw[d][p]]]
                  /\ chan' = [chan EXCEPT ![<<from, d>>] = Tail(@),
                                          ![<<d, msg.DeviceID>>] = @ \o out]
                  /\ last' = Record("handleMessage", d, msg.DeviceID, wire, out,
                                    r.st.written, r.st.stored)

(***************************************************************************)
(* The transport is a plain TCP stream: what arrives may differ from what  *)
(* the peer sealed.  One chunk of the file_response at the head of a       *)
(* connection is altered: a ciphertext byte flipped, the buffer cut below  *)
(* the nonce size, the chunk sealed under another key, or sent unsealed.   *)
(***************************************************************************)
TamperKinds == {"flip", "truncate", "wrongkey", "unseal"}

TamperChunk(chunk, kind) ==
  IF kind = "flip" THEN [chunk EXCEPT !.Data.intact = FALSE]
  ELSE IF kind = "truncate" THEN [chunk EXCEPT !.Data.len = NonceSize - 1]
  ELSE IF kind = "wrongkey" THEN [chunk EXCEPT !.Data.key = OtherKey]
  ELSE [chunk EXCEPT !.Data = chunk.Data.pt, !.Encrypted = FALSE]

Tamper(from, d) ==
  /\ tampers < MaxTamper
  /\ chan[<<from, d>>] # << >>
  /\ IsSync(Head(chan[<<from, d>>]), "file_response")
  /\ LET msg == Head(chan[<<from, d>>])
         chunks == msg.Data.Response.Chunks
     IN  \E i \in 1..Len(chunks), kind \in TamperKinds :
           /\ chunks[i].Encrypted
           /\ chan' = [chan EXCEPT ![<<from, d>>] =
                         << [msg EXCEPT !.Data.Response.Chunks[i] =
                                           TamperChunk(chunks[i], kind)] >>
                           \o Tail(@)]
  /\ tampers' = tampers + 1
  /\ last' = Record("tamper", d, from, NoMsg, << >>, {}, {})
  /\ UNCHANGED <<cfg, life, fs, catalog, events, peers, conn, clock, rw>>

(***************************************************************************)
(* Two replicating engines.  The user edits on device-1; device-2 gets its *)
(* files from the replicator and from its own scans.                       *)
(***************************************************************************)
Next ==
  \/ \E p \in cfg.files, data \in cfg.contents : UserWrite("device-1", p, data)
  \/ \E d \in Devices : ProcessEvent(d)
  \/ \E d \in Devices : Scan(d)
  \/ \E d \in Devices : TryConnect(d)
  \/ \E d \in Devices : BroadcastFileList(d)
  \/ \E from \in Devices, d \in Devices : Deliver(from, d)
  \/ \E from \in Devices, d \in Devices : Tamper(from, d)

Spec == Init /\ [][Next]_vars

(***************************************************************************)
(* A single engine without replication.                                    *)
(***************************************************************************)
EngineNext ==
  \/ \E p \in cfg.files, data \in cfg.contents : UserWrite("device-1", p, data)
  \/ \E p \in cfg.files : UserRemove("device-1", p)
  \/ ProcessEvent("device-1")
  \/ Scan("device-1")

EngineSpec == EngineInit /\ [][EngineNext]_vars

(***************************************************************************)
(* Properties.                                                             *)
(***************************************************************************)
HandledSync(type) == last.op = "handleMessage" /\ IsSync(last.msg, type)

\* The file_request for one entry of a file_list, as device d sends it.
RequestOf(d, remoteFile) ==
  [Type |-> "sync", DeviceID |-> d,
   Data |-> [Type |-> "file_request",
             Request |-> [Path |-> remoteFile.Path, Chunks |-> remoteFile.Chunks]]]

\* The last n messages written to a connection.
LastWritten(c, n) ==
  IF n > Len(chan[c]) THEN << >> ELSE SubSeq(chan[c], Len(chan[c]) - n + 1, Len(chan[c]))

\* C1: when a device has handled a file_list from peer S, it has sent S a
\* file_request carrying the remote path and chunk list for exactly those
\* remote entries whose path is absent from its own Catalog or stored there
\* with a lower version; for an entry whose local version is equal or higher
\* nothing was sent.  (Handling a file_list does not change the Catalog, so
\* the Catalog after the step is the one the handler consulted.)
C1_ReconciliationRule ==
  HandledSync("file_list") =>
    LET d == last.dev
        files == last.msg.Data.Files
        local == catalog[d]
        Wanted(i) == \/ files[i].Path \notin DOMAIN local
                     \/ local[files[i].Path].Version < files[i].Version
        Requested(i) == \E j \in 1..Len(last.sent) : last.sent[j] = RequestOf(d, files[i])
    IN  /\ \A i \in 1..Len(files) : Requested(i) <=> Wanted(i)
        /\ \A j \in 1..Len(last.sent) :
              \E i \in 1..Len(files) : Wanted(i) /\ last.sent[j] = RequestOf(d, files[i])
        /\ Len(last.sent) = Cardinality({i \in 1..Len(files) : Wanted(i)})
        /\ LastWritten(<<d, last.from>>, Len(last.sent)) = last.sent

\* C1 witness: a file_list was handled in which an entry is stored locally
\* with a lower version, and the request for it went out.
C1_Witness ==
  /\ HandledSync("file_list")
  /\ \E i \in 1..Len(last.msg.Data.Files) :
        LET rf == last.msg.Data.Files[i]
        IN  /\ rf.Path \in DOMAIN catalog[last.dev]
            /\ catalog[last.dev][rf.Path].Version < rf.Version
            /\ last.sent = <<RequestOf(last.dev, rf)>>

\* A file_list was handled in which an entry is stored locally with the same
\* version and other content, and nothing was sent.
TieHandled ==
  /\ HandledSync("file_list")
  /\ \E i \in 1..Len(last.msg.Data.Files) :
        LET rf == last.msg.Data.Files[i]
        IN  /\ rf.Path \in DOMAIN catalog[last.dev]
            /\ catalog[last.dev][rf.Path].Version = rf.Version
            /\ catalog[last.dev][rf.Path].Hash # rf.Hash
            /\ last.sent = << >>

\* The regular files under the sync root of device d, outside .fybrk.
FilesOutsideFybrk(d) ==
  { p \in FsRel : fs[d][RootLoc(p)] # NoFile /\ ~UnderFybrk(p) }

\* C2: right after scan() returns, with every delivered event processed, the
\* paths of the Catalog (outside .fybrk) are exactly the regular files under
\* the sync root (outside .fybrk), whatever events were dropped before; a
\* deleted file whose remove event was lost is no longer in the Catalog.
C2_RescanReconciles ==
  (last.op = "ScanDirectory" /\ events[last.dev] = << >>) =>
    { k \in DOMAIN catalog[last.dev] : ~UnderFybrk(k) } = FilesOutsideFybrk(last.dev)

\* C3: once a local rewrite of a tracked file (outside .fybrk) has been observed (the record
\* again agrees with the file on disk), by an event, by a scan or by both,
\* the stored version is the version before the rewrite plus exactly one.
C3_RewriteRaisesByOne ==
  \A d \in Devices : \A p \in FsRel :
    (~UnderFybrk(p) /\ rw[d][p].pending /\ Matches(catalog[d], fs[d], p)) =>
      catalog[d][p].Version = rw[d][p].before + 1

\* The step observes path p of device d: a scan, or the processing of a
\* create/write event for p.
Observes(d, p) ==
  /\ last'.dev = d
  /\ \/ last'.op = "ScanDirectory"
     \/ /\ last'.op = "processFileEvent"
        /\ last'.msg.Event.Operation \in {"create", "write"}
        /\ last'.msg.Event.Path = OsPath(p)

\* C4: observing a path (outside .fybrk) whose size and mtime on disk equal
\* those of its record leaves the record unchanged, by a create/write event
\* and by a scan.
C4_NoChangeNoIncrement ==
  [][ \A d \in Devices : \A p \in FsRel :
        (~UnderFybrk(p) /\ Matches(catalog[d], fs[d], p) /\ Observes(d, p)) =>
          (p \in DOMAIN catalog'[d] /\ catalog'[d][p] = catalog[d][p]) ]_vars

\* C5: no operation lowers the stored version of a path that stays in the
\* Catalog.
C5_VersionNeverLowered ==
  [][ \A d \in Devices : \A k \in DOMAIN catalog[d] \cap DOMAIN catalog'[d] :
        catalog'[d][k].Version >= catalog[d][k].Version ]_vars

\* C6: no Catalog ever holds an entry for a file under sync-root/.fybrk/.
C6_NoReservedEntry ==
  \A d \in Devices : \A k \in DOMAIN catalog[d] : ~UnderFybrk(k)

\* The paths a Catalog lists.
ListedPaths(d) ==
  { ListFiles(catalog[d])[i].Path : i \in 1..Len(ListFiles(catalog[d])) }

\* The first broadcast cycle for a.txt is over: a.txt was written once on
\* device-1 and is in its Catalog through a scan (the event of the write is
\* still in the watcher buffer), nothing was altered in flight, nothing is
\* in flight any more, and the last message of the cycle has been handled:
\* the file_response by device-2, or the file_request by a device-1 that
\* answered nothing.
CycleOver ==
  /\ cfg.files = { <<"a.txt">> }
  /\ clock["device-1"] = 1 /\ clock["device-2"] <= 1
  /\ <<"a.txt">> \in DOMAIN catalog["device-1"]
  /\ Len(events["device-1"]) = 1
  /\ tampers = 0
  /\ \A c \in Devices \X Devices : chan[c] = << >>
  /\ last.op = "handleMessage"
  /\ \/ /\ last.dev = "device-2"
        /\ IsSync(last.msg, "file_response")
        /\ last.msg.Data.Response.Path = <<"a.txt">>
     \/ /\ last.dev = "device-1"
        /\ IsSync(last.msg, "file_request")
        /\ last.msg.Data.Request.Path = <<"a.txt">>
        /\ last.sent = << >>

\* C7: two engines that share the key start empty and connect; a.txt is
\* written on device-1, device-1 scans and one broadcast cycle runs to its
\* end.  Then the sync root of device-2 holds a.txt with the bytes of
\* device-1, and each Catalog lists exactly one file, a.txt.
C7_TwoDeviceBringUp ==
  CycleOver =>
    /\ fs["device-2"][RootLoc(<<"a.txt">>)] # NoFile
    /\ fs["device-2"][RootLoc(<<"a.txt">>)].data
         = fs["device-1"][RootLoc(<<"a.txt">>)].data
    /\ \A d \in Devices : ListedPaths(d) = { <<"a.txt">> }

\* The chunk fails AEAD verification under the shared key: it is sealed, and
\* its buffer is shorter than a nonce, was sealed under another key, or was
\* altered after sealing.
FailsAead(chunk) ==
  /\ chunk.Encrypted
  /\ \/ chunk.Data.len < NonceSize
     \/ chunk.Data.key # SharedKey
     \/ ~chunk.Data.intact

\* The step is device d handling a file_response.
HandlesResponse(d) ==
  /\ last'.op = "handleMessage"
  /\ last'.dev = d
  /\ IsSync(last'.msg, "file_response")

\* C8: when a chunk of a received file_response fails AEAD verification, the
\* step that handles the response changes no file of the receiver and leaves
\* its Catalog unchanged, also when good chunks precede the bad one.
C8_AeadRejection ==
  [][ \A d \in Devices :
        ( /\ HandlesResponse(d)
          /\ \E i \in 1..Len(last'.msg.Data.Response.Chunks) :
                FailsAead(last'.msg.Data.Response.Chunks[i]) )
        => (fs'[d] = fs[d] /\ catalog'[d] = catalog[d]) ]_vars

\* C8 witness: a file_response whose first chunk opens and whose second
\* chunk fails AEAD verification has been handled, the receiver holding no
\* copy of the file.
C8_Witness ==
  /\ HandledSync("file_response")
  /\ LET chunks == last.msg.Data.Response.Chunks
     IN  /\ Len(chunks) >= 2
         /\ ~DecryptChunk(SharedKey, chunks[1]).err
         /\ FailsAead(chunks[2])
  /\ \A loc \in Locs : fs[last.dev][loc] = NoFile
  /\ catalog[last.dev] = EmptyCatalog

\* C9: when a received file_response holds a chunk whose encrypted flag is
\* false, the step that handles it writes no file and leaves the Catalog of
\* the receiver unchanged.
C9_UnsealedRejected ==
  [][ \A d \in Devices :
        ( /\ HandlesResponse(d)
          /\ \E i \in 1..Len(last'.msg.Data.Response.Chunks) :
                ~last'.msg.Data.Response.Chunks[i].Encrypted )
        => (fs'[d] = fs[d] /\ catalog'[d] = catalog[d]) ]_vars

\* C10: when a device has handled a file_request for a path P that is in its
\* Catalog and whose file exists at sync-root/P, it has sent the requester
\* exactly one file_response for P, every chunk of it sealed, whose chunks
\* opened under the shared key and reassembled in order are the content of
\* sync-root/P; whatever the working directory and the chunk size of the
\* engine.  (Handling a request changes neither Catalog nor files.)
C10_ServesRequest ==
  LET d == last.dev
      P == last.msg.Data.Request.Path
  IN  ( /\ HandledSync("file_request")
        /\ P \in DOMAIN catalog[d]
        /\ P \in FsRel
        /\ fs[d][RootLoc(P)] # NoFile )
      => /\ Len(last.sent) = 1
         /\ IsSync(last.sent[1], "file_response")
         /\ last.sent[1].Data.Response.Path = P
         /\ LET chunks == last.sent[1].Data.Response.Chunks
                opened == DecryptAll(SharedKey, chunks)
            IN  /\ \A i \in 1..Len(chunks) : chunks[i].Encrypted
                /\ ~opened.err
                /\ ReassembleChunks(opened.chunks) = fs[d][RootLoc(P)].data
         /\ LastWritten(<<d, last.from>>, 1) = last.sent

\* The step is device d applying a file_response all of whose chunks open.
AppliesResponse(d) ==
  /\ HandlesResponse(d)
  /\ ~DecryptAll(SharedKey, last'.msg.Data.Response.Chunks).err

\* The bytes a file_response carries.
Plaintext(response) ==
  ReassembleChunks(DecryptAll(SharedKey, response.Chunks).chunks)

\* C11: applying a file_response for relative path P leaves the received
\* bytes at sync-root/P, also for a nested P, and creates or changes no file
\* anywhere else.
C11_WritesAtRelativePath ==
  [][ \A d \in Devices :
        (AppliesResponse(d) /\ ~IsAbs(last'.msg.Data.Response.Path)) =>
          LET P == last'.msg.Data.Response.Path
              data == Plaintext(last'.msg.Data.Response)
          IN  /\ fs'[d][RootLoc(P)] # NoFile
              /\ fs'[d][RootLoc(P)].data = data
              /\ \A loc \in Locs \ {RootLoc(P)} : fs'[d][loc] = fs[d][loc] ]_vars

\* C12: after a file_response for relative path P has been applied, the
\* Catalog of the receiver holds under key P a record with version 1 and the
\* size and chunk hashes of the written file, and no record under another key
\* was created or changed.
C12_RecordKeyedByPath ==
  [][ \A d \in Devices :
        (AppliesResponse(d) /\ ~IsAbs(last'.msg.Data.Response.Path)) =>
          LET P == last'.msg.Data.Response.Path
              data == Plaintext(last'.msg.Data.Response)
          IN  /\ GetFileMetadata(catalog'[d], P) # NoMeta
              /\ GetFileMetadata(catalog'[d], P).Path = P
              /\ GetFileMetadata(catalog'[d], P).Version = 1
              /\ GetFileMetadata(catalog'[d], P).Size = Len(data)
              /\ GetFileMetadata(catalog'[d], P).Chunks
                   = HashesOf(SplitBytes(data, NewChunker(DefaultChunkSize)))
              /\ \A k \in DOMAIN catalog'[d] \ {P} :
                   k \in DOMAIN catalog[d] /\ catalog'[d][k] = catalog[d][k] ]_vars

(***************************************************************************)
(* The Catalog on its own: records are stored and deleted directly, as the *)
(* storage tests do.                                                       *)
(***************************************************************************)
\* A time.Time: the Unix second of the instant, whether it has a fraction
\* of a second, and its location.
Times ==
  { [sec |-> 1, frac |-> 0, loc |-> "UTC"],
    [sec |-> 1, frac |-> 1, loc |-> "Local"],
    [sec |-> 2, frac |-> 0, loc |-> "UTC"] }

\* The mod_time DATETIME column: what the SQLite driver hands back for a
\* time.Time it was given.  The driver is not part of the repository; it
\* keeps the instant either whole or to the second, and reads it back in UTC.
ColumnTime(driver, t) ==
  [sec |-> t.sec, frac |-> IF driver = "second" THEN 0 ELSE t.frac, loc |-> "UTC"]

CatalogPaths == { <<"a.txt">>, <<"sub", "b.txt">> }

\* The FileMetadata values the tests store.
Metadatas ==
  { [Path |-> p, Hash |-> Sha256(data), Size |-> size, ModTime |-> t,
     Chunks |-> chunks, Version |-> version] :
      p \in CatalogPaths, data \in WriteContents, size \in {1, 2}, t \in Times,
      chunks \in { << >>, <<Sha256(Pattern(1)), Sha256(Pattern(2))>> },
      version \in {1, 2} }

CatalogInit ==
  /\ \E driver \in {"instant", "second"} :
       cfg = [syncPath |-> RootAbs, cwd |-> RootAbs, files |-> CatalogPaths,
              contents |-> WriteContents, driver |-> driver]
  /\ fs = [d \in Devices |-> TestLayout]
  /\ life = [d \in Devices |-> Standalone]
  /\ Constructed

\* store.StoreFileMetadata(metadata)
CatalogStore(d, metadata) ==
  /\ catalog' = [catalog EXCEPT ![d] =
                   StoreFileMetadata(@, [metadata EXCEPT
                                           !.ModTime = ColumnTime(cfg.driver, @)])]
  /\ last' = Record("StoreFileMetadata", d, d,
                    [Type |-> "metadata", Metadata |-> metadata], << >>, {},
                    {metadata.Path})
  /\ UNCHANGED <<cfg, life, fs, events, peers, conn, chan, clock, tampers, rw>>

\* store.DeleteFileMetadata(path): no error, whether or not the row exists
CatalogDelete(d, path) ==
  /\ catalog' = [catalog EXCEPT ![d] = DeleteFileMetadata(@, path)]
  /\ last' = Record("DeleteFileMetadata", d, d,
                    [Type |-> "path", Path |-> path], << >>, {}, {})
  /\ UNCHANGED <<cfg, life, fs, events, peers, conn, chan, clock, tampers, rw>>

CatalogNext ==
  \/ \E metadata \in Metadatas : CatalogStore("device-1", metadata)
  \/ \E path \in CatalogPaths : CatalogDelete("device-1", path)

CatalogSpec == CatalogInit /\ [][CatalogNext]_vars

\* The record is the stored one, the modification time compared to the second.
SameRecord(got, metadata) ==
  /\ got # NoMeta
  /\ got.Path = metadata.Path
  /\ got.Hash = metadata.Hash
  /\ got.Size = metadata.Size
  /\ got.ModTime.sec = metadata.ModTime.sec
  /\ got.Chunks = metadata.Chunks
  /\ got.Version = metadata.Version

\* The paths of the listed records, in the order of the list.
ListedOrder(cat) == [i \in 1..Len(ListFiles(cat)) |-> ListFiles(cat)[i].Path]

\* C13: the Catalog is a last-write-wins map keyed by path.  After a put of M
\* with path P, get(P) is M (path, hash, size, modification time to the
\* second, chunk list, version) and every other path reads as before; a
\* delete of another path leaves get(P) as it was, so the most recent put is
\* what is read until P is deleted.  list() holds exactly one record per
\* stored path, the one get returns.  A second put of the same M leaves the
\* state of the first.
C13_LastWriteWins ==
  [][ LET cat == catalog["device-1"]
          cat2 == catalog'["device-1"]
      IN  /\ last'.op = "StoreFileMetadata" =>
               LET M == last'.msg.Metadata
               IN  /\ SameRecord(GetFileMetadata(cat2, M.Path), M)
                   /\ DOMAIN cat2 = DOMAIN cat \cup {M.Path}
                   /\ \A k \in DOMAIN cat2 \ {M.Path} : cat2[k] = cat[k]
          /\ last'.op = "DeleteFileMetadata" =>
               /\ DOMAIN cat2 = DOMAIN cat \ {last'.msg.Path}
               /\ \A k \in DOMAIN cat2 : cat2[k] = cat[k]
          /\ Len(ListFiles(cat2)) = Cardinality(DOMAIN cat2)
          /\ \A i \in 1..Len(ListFiles(cat2)) :
               ListFiles(cat2)[i] = GetFileMetadata(cat2, ListedOrder(cat2)[i])
          /\ \A i, j \in 1..Len(ListFiles(cat2)) :
               ListedOrder(cat2)[i] = ListedOrder(cat2)[j] => i = j
          /\ (last.op = "StoreFileMetadata" /\ last'.op = "StoreFileMetadata"
                /\ last'.msg = last.msg) => cat2 = cat ]_vars

\* A record with a sub-second, non-UTC modification time has replaced an
\* earlier record of its path while another path is stored as well.
C13_Witness ==
  /\ last.op = "StoreFileMetadata"
  /\ last.msg.Metadata.Version = 2
  /\ last.msg.Metadata.ModTime.frac = 1
  /\ Cardinality(DOMAIN catalog["device-1"]) = 2
  /\ SameRecord(GetFileMetadata(catalog["device-1"], last.msg.Metadata.Path),
                last.msg.Metadata)

\* Every path a Catalog can hold.
AllPaths == { AllPathsSorted[i] : i \in 1..Len(AllPathsSorted) }

\* The step is the engine processing a remove event for sync-root/p.
ProcessesRemove(p) ==
  /\ last'.op = "processFileEvent"
  /\ last'.msg.Event.Operation = "remove"
  /\ last'.msg.Event.Path = OsPath(p)

\* C14: delete is idempotent at both levels.  On the Catalog, after delete(P)
\* get(P) is not-found, every other path reads as before, and deleting a
\* path that is absent changes nothing.  In the engine, processing a remove
\* event for P leaves the Catalog without P and every other record as it
\* was; when P has no record (never ingested, or removed before) the Catalog
\* is unchanged.
C14_DeleteIdempotent ==
  [][ LET cat == catalog["device-1"]
          cat2 == catalog'["device-1"]
      IN  /\ \A path \in AllPaths :
               /\ GetFileMetadata(DeleteFileMetadata(cat2, path), path) = NoMeta
               /\ \A k \in AllPaths \ {path} :
                    GetFileMetadata(DeleteFileMetadata(cat2, path), k)
                      = GetFileMetadata(cat2, k)
               /\ path \notin DOMAIN cat2 => DeleteFileMetadata(cat2, path) = cat2
               /\ DeleteFileMetadata(DeleteFileMetadata(cat2, path), path)
                    = DeleteFileMetadata(cat2, path)
          /\ \A p \in FsRel :
               ProcessesRemove(p) =>
                 /\ GetFileMetadata(cat2, p) = NoMeta
                 /\ \A k \in AllPaths \ {p} :
                      GetFileMetadata(cat2, k) = GetFileMetadata(cat, k)
                 /\ p \notin DOMAIN cat => cat2 = cat ]_vars

\* A remove event for a.txt has been processed while the Catalog holds the
\* record of another file, which is still there.
C14_Witness ==
  /\ last.op = "processFileEvent"
  /\ last.msg.Event.Operation = "remove"
  /\ last.msg.Event.Path = OsPath(<<"a.txt">>)
  /\ GetFileMetadata(catalog["device-1"], <<"a.txt">>) = NoMeta
  /\ DOMAIN catalog["device-1"] # {}

(***************************************************************************)
(* The Chunker and the Encryptor on their own, as the storage tests use    *)
(* them: a file is split, a chunk of it (or a chunk built by hand) is      *)
(* sealed, damaged and opened, under the key of the Encryptor or another.  *)
(***************************************************************************)
RECURSIVE SeqsOver(_, _)
SeqsOver(S, n) ==
  IF n = 0 THEN { << >> }
  ELSE LET shorter == SeqsOver(S, n - 1)
       IN  shorter \cup { Append(b, x) : b \in { c \in shorter : Len(c) = n - 1 },
                                         x \in S }

\* The file contents given to a Chunker: every short buffer and longer
\* patterned ones.
Buffers == SeqsOver({1, 2}, MaxLen) \cup { Pattern(n) : n \in MaxLen..MaxBuffer }

ChunkSizes == 1..MaxChunkSize

Keys == {SharedKey, OtherKey}

\* rand.Reader: the nonces an Encryptor draws
StorageNonces == {1, 2}

NoChunk == [none |-> TRUE]

\* A buffer of n bytes that no Seal produced: it opens under no key.
Raw(n) == [key |-> "none", nonce |-> 0, pt |-> << >>, intact |-> FALSE, len |-> n]

\* What a storage test holds: the chunk size and the chunks of the last
\* split, the chunk worked on, that chunk before the last call, the bytes it
\* was made from, the key of the Encryptor called, the error returned and
\* the bytes reassembled.
Work(chunkSize, chunks, chunk, was, plain, key, err, data) ==
  [Type |-> "storage", ChunkSize |-> chunkSize, Chunks |-> chunks,
   Chunk |-> chunk, Was |-> was, Plain |-> plain, Key |-> key, Err |-> err,
   Data |-> data]

TestFile == <<"a.txt">>

StorageInit ==
  /\ cfg = [syncPath |-> RootAbs, cwd |-> RootAbs, files |-> {TestFile},
            contents |-> Buffers]
  /\ \E data \in Buffers :
       fs = [d \in Devices |->
               [loc \in Locs |-> IF d = "device-1" /\ loc = RootLoc(TestFile)
                                 THEN [data |-> data, mtime |-> 0] ELSE NoFile]]
  /\ catalog = [d \in Devices |-> EmptyCatalog]
  /\ events = [d \in Devices |-> << >>]
  /\ peers = [d \in Devices |-> {}]
  /\ conn = FALSE
  /\ chan = [c \in Devices \X Devices |-> << >>]
  /\ clock = [d \in Devices |-> 0]
  /\ tampers = 0
  /\ life = [d \in Devices |-> Standalone]
  /\ rw = [d \in Devices |-> [p \in FsRel |-> NotApplicable]]
  /\ last = Record("init", "device-1", "device-1",
                   Work(0, << >>, NoChunk, NoChunk, << >>, SharedKey, FALSE, << >>),
                   << >>, {}, {})

StorageStep(op, msg) ==
  /\ last' = Record(op, "device-1", "device-1", msg, << >>, {}, {})
  /\ UNCHANGED <<cfg, life, fs, catalog, events, peers, conn, chan, clock, tampers, rw>>

\* NewChunker(chunkSize).ChunkFile(testFile)
StorageChunkFile(chunkSize) ==
  LET r == ChunkFile(fs["device-1"], NewChunker(chunkSize), OsPath(TestFile))
  IN  StorageStep("ChunkFile",
                  Work(chunkSize, r.chunks, NoChunk, NoChunk, << >>, SharedKey,
                       r.err, << >>))

\* chunker.ReassembleChunks(chunks)
StorageReassemble ==
  /\ last.op = "ChunkFile"
  /\ StorageStep("ReassembleChunks",
                 [last.msg EXCEPT !.Data = ReassembleChunks(last.msg.Chunks)])

\* The test takes chunk i of the split to work on.
StorageTake(i) ==
  /\ last.op \in {"ChunkFile", "ReassembleChunks"}
  /\ i \in 1..Len(last.msg.Chunks)
  /\ StorageStep("take",
                 [last.msg EXCEPT !.Chunk = last.msg.Chunks[i], !.Was = NoChunk,
                                  !.Plain = last.msg.Chunks[i].Data,
                                  !.Err = FALSE, !.Data = << >>])

\* The test builds a chunk by hand: flagged as sealed, with a buffer of n
\* bytes that is no ciphertext ("too short", "already encrypted").
StorageBuild(n) ==
  /\ last.op \in {"init", "ChunkFile"}
  /\ StorageStep("build",
                 [last.msg EXCEPT !.Chunk = [Hash |-> ZeroHash, Data |-> Raw(n),
                                             Size |-> 0, Encrypted |-> TRUE],
                                  !.Was = NoChunk, !.Plain = << >>,
                                  !.Err = FALSE, !.Data = << >>])

\* NewEncryptor(key).EncryptChunk(chunk)
StorageEncrypt(key, nonce) ==
  /\ last.msg.Chunk # NoChunk
  /\ StorageStep("EncryptChunk",
                 [last.msg EXCEPT !.Chunk = EncryptChunk(key, nonce, last.msg.Chunk),
                                  !.Was = last.msg.Chunk,
                                  !.Key = key, !.Err = FALSE])

\* NewEncryptor(key).DecryptChunk(chunk)
StorageDecrypt(key) ==
  /\ last.msg.Chunk # NoChunk
  /\ LET r == DecryptChunk(key, last.msg.Chunk)
     IN  StorageStep("DecryptChunk",
                     [last.msg EXCEPT !.Chunk = r.chunk, !.Was = last.msg.Chunk,
                                      !.Key = key, !.Err = r.err])

\* A sealed buffer is damaged: a byte flipped, or cut below the nonce size.
StorageDamage(kind) ==
  /\ last.op = "EncryptChunk"
  /\ last.msg.Chunk.Encrypted
  /\ StorageStep("damage",
                 [last.msg EXCEPT !.Chunk = TamperChunk(last.msg.Chunk, kind),
                                  !.Was = NoChunk, !.Err = FALSE])

StorageNext ==
  \/ \E chunkSize \in ChunkSizes : StorageChunkFile(chunkSize)
  \/ StorageReassemble
  \/ \E i \in 1..MaxBuffer : StorageTake(i)
  \/ \E n \in {9, 17} : StorageBuild(n)
  \/ \E key \in Keys, nonce \in StorageNonces : StorageEncrypt(key, nonce)
  \/ \E key \in Keys : StorageDecrypt(key)
  \/ \E kind \in {"flip", "truncate"} : StorageDamage(kind)

StorageSpec == StorageInit /\ [][StorageNext]_vars

\* The bytes of the file the Chunker reads.
FileBytes == fs["device-1"][RootLoc(TestFile)].data

\* C15: the chunks of a file of bytes B, split with any chunk size C > 0,
\* reassemble to exactly B, and each chunk's hash is the SHA-256 of the
\* chunk's own plaintext bytes.
C15_ChunkRoundTrip ==
  /\ last.op \in {"ChunkFile", "ReassembleChunks"} =>
       /\ ~last.msg.Err
       /\ ReassembleChunks(last.msg.Chunks) = FileBytes
       /\ \A i \in 1..Len(last.msg.Chunks) :
            last.msg.Chunks[i].Hash = Sha256(last.msg.Chunks[i].Data)
  /\ last.op = "ReassembleChunks" => last.msg.Data = FileBytes

\* A file that does not divide into whole chunks has been split into
\* several chunks and reassembled.
C15_Witness ==
  /\ last.op = "ReassembleChunks"
  /\ Len(last.msg.Chunks) = 3
  /\ Len(FileBytes) % last.msg.ChunkSize # 0
  /\ last.msg.Data = FileBytes

SealedUnder(chunk, key) ==
  /\ chunk.Encrypted
  /\ chunk.Data.len >= NonceSize
  /\ chunk.Data.key = key
  /\ chunk.Data.intact

\* C17: sealing a chunk and opening it under the same key restores the
\* original bytes; the hash is the same before, while sealed and after, and
\* the flag is false again.  While sealed, the buffer is longer than the
\* plaintext by exactly the nonce (12) and the tag (16).
C17_SealOpenRoundTrip ==
  /\ (last.op = "EncryptChunk" /\ ~last.msg.Was.Encrypted) =>
       /\ ~last.msg.Err
       /\ last.msg.Chunk.Encrypted
       /\ last.msg.Chunk.Hash = last.msg.Was.Hash
       /\ BufLen(last.msg.Chunk) = Len(last.msg.Plain) + 12 + 16
       /\ BufLen(last.msg.Chunk) = BufLen(last.msg.Was) + NonceSize + TagSize
  /\ (last.op = "DecryptChunk" /\ SealedUnder(last.msg.Was, last.msg.Key)) =>
       /\ ~last.msg.Err
       /\ ~last.msg.Chunk.Encrypted
       /\ last.msg.Chunk.Data = last.msg.Plain
       /\ last.msg.Chunk.Hash = last.msg.Was.Hash
       /\ last.msg.Chunk.Hash = Sha256(last.msg.Plain)

\* A chunk of several bytes, sealed under the other key, has been opened
\* under that key.
C17_Witness ==
  /\ last.op = "DecryptChunk"
  /\ last.msg.Key = OtherKey
  /\ SealedUnder(last.msg.Was, OtherKey)
  /\ last.msg.Chunk.Data = last.msg.Plain
  /\ Len(last.msg.Plain) = MaxChunkSize

\* C18: opening a sealed chunk under a key other than the one it was sealed
\* with fails with the decryption error and leaves the chunk as it was: the
\* same buffer, still flagged as sealed.  A chunk flagged as sealed whose
\* buffer is shorter than a nonce fails in the same way.
C18_WrongKeyFails ==
  (/\ last.op = "DecryptChunk"
   /\ last.msg.Was.Encrypted
   /\ \/ last.msg.Was.Data.key # last.msg.Key
      \/ last.msg.Was.Data.len < NonceSize) =>
    /\ last.msg.Err
    /\ last.msg.Chunk = last.msg.Was
    /\ last.msg.Chunk.Encrypted

\* A chunk sealed under one key has been opened under the other.
C18_Witness ==
  /\ last.op = "DecryptChunk"
  /\ last.msg.Key = OtherKey
  /\ SealedUnder(last.msg.Was, SharedKey)
  /\ last.msg.Err

\* A chunk sealed under the key of the Encryptor, cut below the nonce size,
\* has been refused.
ShortBufferRefused ==
  /\ last.op = "DecryptChunk"
  /\ last.msg.Was.Encrypted
  /\ last.msg.Was.Data.key = last.msg.Key
  /\ last.msg.Was.Data.len < NonceSize
  /\ last.msg.Err

\* C19: sealing a chunk that is flagged as sealed, and opening a chunk that
\* is not, both succeed and leave the chunk exactly as it was, so sealing
\* twice is sealing once.
C19_IdempotentSealOpen ==
  /\ (last.op = "EncryptChunk" /\ last.msg.Was.Encrypted) =>
       ~last.msg.Err /\ last.msg.Chunk = last.msg.Was
  /\ (last.op = "DecryptChunk" /\ ~last.msg.Was.Encrypted) =>
       ~last.msg.Err /\ last.msg.Chunk = last.msg.Was

\* A chunk sealed under one key has gone through EncryptChunk of the other
\* key and is still the chunk the first key sealed.
C19_Witness ==
  /\ last.op = "EncryptChunk"
  /\ last.msg.Key = OtherKey
  /\ SealedUnder(last.msg.Was, SharedKey)
  /\ last.msg.Chunk = last.msg.Was

(***************************************************************************)
(* One engine that is also handed events for a file next to the sync root, *)
(* as TestFileEventProcessing does.                                        *)
(***************************************************************************)
StrayInit ==
  /\ \E s \in Starts :
       cfg = [syncPath |-> s.syncPath, cwd |-> s.cwd, files |-> {<<"a.txt">>},
              contents |-> SyncContents]
  /\ fs = [d \in Devices |-> TestLayout]
  /\ life = [d \in Devices |-> Standalone]
  /\ Constructed

\* The file next to the sync root is written and a create or write event
\* with its absolute path is handed to the engine.
StrayWrite(d, data) ==
  /\ clock["device-1"] + clock["device-2"] < MaxClock
  /\ fs' = [fs EXCEPT ![d][OutsideAbs] = [data |-> data, mtime |-> clock[d] + 1]]
  /\ clock' = [clock EXCEPT ![d] = @ + 1]
  /\ events' = [events EXCEPT ![d] =
                  handleEvent(@, [Path |-> OutsideAbs,
                                  Operation |-> IF fs[d][OutsideAbs] = NoFile
                                                THEN "create" ELSE "write"])]
  /\ last' = Record("StrayWrite", d, d, NoMsg, << >>, {OutsideAbs}, {})
  /\ UNCHANGED <<cfg, life, catalog, peers, conn, chan, tampers, rw>>

\* The file next to the sync root is removed and a remove event with its
\* absolute path is handed to the engine.
StrayRemove(d) ==
  /\ fs[d][OutsideAbs] # NoFile
  /\ fs' = [fs EXCEPT ![d][OutsideAbs] = NoFile]
  /\ events' = [events EXCEPT ![d] =
                  handleEvent(@, [Path |-> OutsideAbs, Operation |-> "remove"])]
  /\ last' = Record("StrayRemove", d, d, NoMsg, << >>, {OutsideAbs}, {})
  /\ UNCHANGED <<cfg, life, catalog, peers, conn, chan, clock, tampers, rw>>

StrayNext ==
  \/ \E p \in cfg.files, data \in cfg.contents : UserWrite("device-1", p, data)
  \/ \E p \in cfg.files : UserRemove("device-1", p)
  \/ \E data \in WriteContents : StrayWrite("device-1", data)
  \/ StrayRemove("device-1")
  \/ ProcessEvent("device-1")
  \/ Scan("device-1")

StraySpec == StrayInit /\ [][StrayNext]_vars

\* The step is the engine processing an event for the file next to the
\* sync root.
ProcessesOutside ==
  /\ last'.op = "processFileEvent"
  /\ last'.msg.Event.Path = OutsideAbs

\* C20: a create, write or remove event whose absolute path is not within
\* the sync root (a sibling of the sync root in its parent directory) leaves
\* the Catalog completely unchanged; no key containing ".." is added.
C20_OutsideIgnored ==
  [][ ProcessesOutside =>
        /\ catalog' = catalog
        /\ \A k \in DOMAIN catalog'["device-1"] :
             \A i \in 1..Len(k) : k[i] # ".." ]_vars

(***************************************************************************)
(* One engine whose user also renames files under the sync root.  The      *)
(* notification source reports a rename as a rename of the old name        *)
(* followed by a create of the new name.                                   *)
(***************************************************************************)
UserRename(d, p, q) ==
  LET from == RootLoc(p)
      to == RootLoc(q)
  IN  /\ fs[d][from] # NoFile
      /\ fs[d][to] = NoFile
      /\ fs' = [fs EXCEPT ![d][from] = NoFile, ![d][to] = fs[d][from]]
      /\ events' = [events EXCEPT ![d] =
                      handleEvent(handleEvent(@, [Path |-> OsPath(p),
                                                  Operation |-> "rename"]),
                                  [Path |-> OsPath(q), Operation |-> "create"])]
      /\ rw' = [rw EXCEPT ![d][p] = NotApplicable, ![d][q] = NotApplicable]
      /\ last' = Record("UserRename", d, d, NoMsg, << >>, {from, to}, {})
      /\ UNCHANGED <<cfg, life, catalog, peers, conn, chan, clock, tampers>>

RenameNext ==
  \/ \E p \in cfg.files, data \in cfg.contents : UserWrite("device-1", p, data)
  \/ UserRename("device-1", <<"a.txt">>, <<"b.txt">>)
  \/ UserRename("device-1", <<"b.txt">>, <<"a.txt">>)
  \/ ProcessEvent("device-1")
  \/ Scan("device-1")

RenameSpec == StrayInit /\ [][RenameNext]_vars

\* The step is the engine processing a rename event for sync-root/p.
ProcessesRename(p) ==
  /\ last'.op = "processFileEvent"
  /\ last'.msg.Event.Operation = "rename"
  /\ last'.msg.Event.Path = OsPath(p)

\* C21: after a rename event for an old path P under the sync root has been
\* processed, the Catalog no longer contains P, exactly as if a remove event
\* for P had been processed; the event adds no record for the new path.
C21_RenameRemovesOldPath ==
  [][ \A p \in FsRel :
        ProcessesRename(p) =>
          /\ GetFileMetadata(catalog'["device-1"], p) = NoMeta
          /\ catalog'["device-1"] = DeleteFileMetadata(catalog["device-1"], p) ]_vars

(***************************************************************************)
(* The life cycle of one engine (device-1): replication is enabled, a peer *)
(* (device-2) dials in, the engine is closed, and the goroutines it        *)
(* started observe the shutdown or do not.                                 *)
(***************************************************************************)
Ports == {0, 7}

LifecycleInit ==
  /\ cfg = [syncPath |-> RootAbs, cwd |-> RootAbs, files |-> {},
            contents |-> SyncContents]
  /\ fs = [d \in Devices |-> TestLayout]
  /\ life = [d \in Devices |-> IF d = "device-1" THEN Standalone ELSE Replicating]
  /\ Constructed

\* Engine.EnableMultiDeviceSync(port): a new MultiDeviceSync with a new
\* PeerNetwork replaces e.multiDevice, then Start listens on the port;
\* net.Listen fails when the port is fixed and a listener of the engine
\* still holds it.  The error is kept in last.msg.Err.
EnableMultiDeviceSync(d, port) ==
  LET nets == life[d].nets
      busy == port # 0 /\ \E i \in 1..Len(nets) :
                            nets[i].listening /\ nets[i].port = port
      network == IF busy
                 THEN [port |-> port, listening |-> FALSE, cancelled |-> FALSE,
                       accept |-> "none", periodic |-> "none"]
                 ELSE StartedNetwork(port)
  IN  /\ ~life[d].panicked
      /\ Len(nets) < MaxEnable
      /\ life' = [life EXCEPT ![d].nets = Append(@, network)]
      /\ peers' = [peers EXCEPT ![d] = {}]
      /\ last' = Record("EnableMultiDeviceSync", d, d,
                        [Type |-> "enable", Port |-> port, Err |-> busy],
                        << >>, {}, {})
      /\ UNCHANGED <<cfg, fs, catalog, events, conn, chan, clock, tampers, rw>>

\* PeerNetwork.Stop of a network: the context is cancelled and the listener
\* closed.
Stopped(network) == [network EXCEPT !.cancelled = TRUE, !.listening = FALSE]

\* Engine.Close: multiDevice.Stop() when replication is enabled (the
\* connections of the peer table are closed), then watcher.Close(), whose
\* close(fw.done) panics when the channel is closed already.
Close(d) ==
  LET nets == life[d].nets
      n == Len(nets)
      hangup == n > 0 /\ Other(d) \in peers[d]
  IN  /\ ~life[d].panicked
      /\ life[d].closes < MaxClose
      /\ life' = [life EXCEPT
                    ![d].nets = IF n = 0 THEN nets
                                ELSE [nets EXCEPT ![n] = Stopped(@)],
                    ![d].panicked = life[d].done,
                    ![d].done = TRUE,
                    ![d].closes = IF life[d].done THEN @ ELSE @ + 1]
      /\ conn' = IF hangup THEN FALSE ELSE conn
      /\ chan' = IF hangup THEN [c \in Devices \X Devices |-> << >>] ELSE chan
      /\ last' = Record("Close", d, d, NoMsg, << >>, {}, {})
      /\ UNCHANGED <<cfg, fs, catalog, events, peers, clock, tampers, rw>>

\* acceptConnections of network i: Accept fails on the closed listener and
\* the loop sees the cancelled context.
AcceptExit(d, i) ==
  /\ i \in 1..Len(life[d].nets)
  /\ life[d].nets[i].accept = "running"
  /\ life[d].nets[i].cancelled
  /\ life' = [life EXCEPT ![d].nets[i].accept = "stopped"]
  /\ last' = Record("acceptExit", d, d, NoMsg, << >>, {}, {})
  /\ UNCHANGED <<cfg, fs, catalog, events, peers, conn, chan, clock, tampers, rw>>

\* FileWatcher.run: the done channel is closed.
RunExit(d) ==
  /\ life[d].run = "running"
  /\ life[d].done
  /\ life' = [life EXCEPT ![d].run = "stopped"]
  /\ last' = Record("runExit", d, d, NoMsg, << >>, {}, {})
  /\ UNCHANGED <<cfg, fs, catalog, events, peers, conn, chan, clock, tampers, rw>>

\* handleConnection of a connection that Stop did not close: the reader
\* sees the cancelled context at its next iteration, returns and closes
\* the connection.
ReaderExit(d) ==
  /\ conn
  /\ life[d].nets # << >>
  /\ life[d].nets[Len(life[d].nets)].cancelled
  /\ conn' = FALSE
  /\ chan' = [c \in Devices \X Devices |-> << >>]
  /\ last' = Record("readerExit", d, d, NoMsg, << >>, {}, {})
  /\ UNCHANGED <<cfg, life, fs, catalog, events, peers, clock, tampers, rw>>

\* The peer dials the listener of the engine's current PeerNetwork.
PeerDials(d) ==
  /\ life[d].nets # << >>
  /\ life[d].nets[Len(life[d].nets)].listening
  /\ TryConnect(Other(d))

LifecycleNext ==
  \/ \E port \in Ports : EnableMultiDeviceSync("device-1", port)
  \/ Close("device-1")
  \/ \E i \in 1..MaxEnable : AcceptExit("device-1", i)
  \/ RunExit("device-1")
  \/ ReaderExit("device-1")
  \/ PeerDials("device-1")
  \/ \E from \in Devices, d \in Devices : Deliver(from, d)
  \/ \E d \in Devices : BroadcastFileList(d)

LifecycleSpec == LifecycleInit /\ [][LifecycleNext]_vars

\* Goroutines that can return do return.
LifecycleFairness ==
  /\ \A i \in 1..MaxEnable : WF_vars(AcceptExit("device-1", i))
  /\ WF_vars(RunExit("device-1"))
  /\ WF_vars(ReaderExit("device-1"))

LifecycleFairSpec == LifecycleSpec /\ LifecycleFairness

\* C22: Engine close() is idempotent: a second call, with or without
\* replication enabled, completes without a panic and leaves the engine in
\* the closed state the first call left.
C22_CloseIdempotent ==
  [][ (last.op = "Close" /\ last'.op = "Close") =>
        /\ ~life'["device-1"].panicked
        /\ life'["device-1"] =
             [life["device-1"] EXCEPT !.closes = life'["device-1"].closes] ]_vars

\* close() has returned on the engine of device d.
Closed(d) == life[d].closes > 0

\* Every goroutine the engine of device d started has returned: the event
\* drain (handleFileEvents), the watcher loop, the acceptors, the readers of
\* its connection and the periodic broadcasts.
TasksOver(d) ==
  \/ life[d].panicked
  \/ /\ life[d].drain = "stopped"
     /\ life[d].run = "stopped"
     /\ ~conn
     /\ \A i \in 1..Len(life[d].nets) :
          /\ life[d].nets[i].accept # "running"
          /\ life[d].nets[i].periodic # "running"

\* C23: after close() on an engine with replication enabled, every
\* long-lived task it spawned eventually terminates, and no file_list
\* broadcast is issued after close() has returned.
C23_ShutdownLiveness ==
  /\ (Closed("device-1") /\ life["device-1"].nets # << >>)
       ~> TasksOver("device-1")
  /\ [][ Closed("device-1") =>
           ~(last'.op = "broadcastFileList" /\ last'.dev = "device-1") ]_vars

\* The number of open listeners and of periodic broadcast tasks of device d.
Listeners(lf) == Cardinality({ i \in 1..Len(lf.nets) : lf.nets[i].listening })

Broadcasters(lf) ==
  Cardinality({ i \in 1..Len(lf.nets) : lf.nets[i].periodic = "running" })

\* C24: enable_replication(port) on an engine whose Replicator is already
\* running succeeds and leaves exactly one listener, one peer table (peers
\* already connected stay reported) and one periodic broadcast task.
C24_EnableIdempotent ==
  [][ (/\ last'.op = "EnableMultiDeviceSync"
       /\ Listeners(life["device-1"]) = 1
       /\ ~Closed("device-1")) =>
        /\ ~last'.msg.Err
        /\ Listeners(life'["device-1"]) = 1
        /\ Broadcasters(life'["device-1"]) = 1
        /\ peers'["device-1"] = peers["device-1"] ]_vars

(***************************************************************************)
(* Two replicating engines over a connection that can close or fail, with  *)
(* a peer that may send bytes that are no JSON, messages of unknown type   *)
(* and messages stamped with a protocol version.                           *)
(***************************************************************************)
\* UniversalSyncProtocol.IsCompatible
IsCompatible(version, msg) == msg.Version <= version

LinkInit ==
  /\ cfg = [syncPath |-> << >>, cwd |-> RootAbs, files |-> {<<"a.txt">>},
            contents |-> SyncContents]
  /\ fs = [d \in Devices |-> TestLayout]
  /\ life = [d \in Devices |-> Replicating]
  /\ Constructed

\* tryConnect while no peer table holds an entry of an earlier connection.
LinkDial(d) ==
  /\ \A e \in Devices : peers[e] = {}
  /\ TryConnect(d)

\* The connection is closed by a peer or fails: both readers get a decode
\* error and return; what was in flight is lost.
Disconnect ==
  /\ conn
  /\ conn' = FALSE
  /\ chan' = [c \in Devices \X Devices |-> << >>]
  /\ last' = Record("disconnect", "device-1", "device-2", NoMsg, << >>, {}, {})
  /\ UNCHANGED <<cfg, life, fs, catalog, events, peers, clock, tampers, rw>>

\* What a peer may write to the connection besides the messages of the
\* replicator: bytes that are no JSON, a message of unknown type, a sync
\* message of unknown type, and a file_list stamped with a protocol version.
Wires(from) ==
  { Malformed,
    [Type |-> "unknown", DeviceID |-> from, Data |-> NoMsg],
    SyncMsg(from, [Type |-> "unknown"]) }
  \cup { [Version |-> v, Type |-> "sync", DeviceID |-> from,
          Data |-> [Type |-> "file_list", Files |-> ListFiles(catalog[from])]] :
           v \in {ProtocolVersion, ProtocolVersion + 1} }

PeerSends(from, d, wire) ==
  /\ conn
  /\ \A c \in Devices \X Devices : Len(chan[c]) < MaxQueue
  /\ chan' = [chan EXCEPT ![<<from, d>>] = Append(@, wire)]
  /\ last' = Record("peerSends", from, from, wire, <<wire>>, {}, {})
  /\ UNCHANGED <<cfg, life, fs, catalog, events, peers, conn, clock, tampers, rw>>

LinkNext ==
  \/ \E p \in cfg.files, data \in cfg.contents : UserWrite("device-1", p, data)
  \/ \E d \in Devices : ProcessEvent(d)
  \/ \E d \in Devices : LinkDial(d)
  \/ \E d \in Devices : BroadcastFileList(d)
  \/ \E from \in Devices, d \in Devices : Deliver(from, d)
  \/ \E from \in Devices : \E wire \in Wires(from) : PeerSends(from, Other(from), wire)
  \/ Disconnect

LinkSpec == LinkInit /\ [][LinkNext]_vars

\* MultiDeviceSync.GetConnectedDevices: the keys of the peer table.
GetPeers(d) == peers[d]

\* C25: a device id is in the peer table only while a live connection to
\* that peer exists: once the connection has closed or failed,
\* connected_peers() no longer returns the id, and no later send or
\* broadcast is attempted for it.
C25_PeersOnlyWhileConnected ==
  [][ /\ ~conn' => \A d \in Devices : GetPeers(d)' = {}
      /\ (~conn /\ last'.op = "broadcastFileList") => last'.sent = << >> ]_vars

\* C26: when a connection enters CONNECTED, the dialer and the acceptor each
\* send the peer a file_list of the current Catalog at once: the dialer on
\* tryConnect, the acceptor on handling the first message of the connection.
C26_InitialAnnouncement ==
  [][ /\ last'.op = "tryConnect" =>
           \E i \in DOMAIN chan'[<<last'.dev, Other(last'.dev)>>] :
              IsSync(chan'[<<last'.dev, Other(last'.dev)>>][i], "file_list")
      /\ (last'.op = "handleMessage" /\ last'.msg.Type = "discovery") =>
           \E i \in DOMAIN last'.sent : IsSync(last'.sent[i], "file_list") ]_vars

\* C27: a malformed message, bytes that fail JSON parsing or a message of
\* unknown type, is discarded: no Catalog or file-system change, nothing
\* sent, and the connection stays open with later messages still queued.
IsMalformed(wire) ==
  \/ wire = Malformed
  \/ wire.Type \notin {"discovery", "sync"}
  \/ wire.Type = "sync" /\
       wire.Data.Type \notin {"file_list", "file_request", "file_response"}

C27_MalformedKeepsConnection ==
  [][ \A from \in Devices :
        (chan[<<from, Other(from)>>] # << >> /\
         IsMalformed(Head(chan[<<from, Other(from)>>])) /\
         last'.op \in {"handleConnection", "handleMessage"} /\
         last'.dev = Other(from) /\ last'.from = from) =>
          /\ conn' = conn
          /\ chan'[<<from, Other(from)>>] = Tail(chan[<<from, Other(from)>>])
          /\ fs' = fs /\ catalog' = catalog /\ last'.sent = << >> ]_vars

\* C28: IsCompatible(msg) is true exactly when msg.Version <= the local
\* version (1); a received message of a higher version is rejected with no
\* reconciliation action (nothing sent, nothing written, no Catalog
\* change), one of the same or a lower version is handled.
Stamped(wire) == "Version" \in DOMAIN wire

C28_VersionNegotiation ==
  [][ /\ \A v \in 0..(ProtocolVersion + 1) :
           IsCompatible(ProtocolVersion, [Version |-> v]) <=> v <= ProtocolVersion
      /\ (last'.op = "handleMessage" /\ Stamped(last'.msg)) =>
           IF IsCompatible(ProtocolVersion, last'.msg)
           THEN last'.sent = SendMessage(peers'[last'.dev], last'.from,
                  handleFileList(last'.dev, catalog[last'.dev], last'.msg.Data.Files))
           ELSE /\ last'.sent = << >>
                /\ last'.written = {}
                /\ fs' = fs /\ catalog' = catalog ]_vars

(***************************************************************************)
(* One engine scanning a sync root in which a file may be unreadable.      *)
(***************************************************************************)
ScanInit ==
  /\ cfg = [syncPath |-> RootAbs, cwd |-> RootAbs,
            files |-> {<<"a.txt">>, <<"b.txt">>}, contents |-> SyncContents]
  /\ fs = [d \in Devices |-> TestLayout]
  /\ life = [d \in Devices |-> Standalone]
  /\ Constructed

\* chmod 000 on a file under the sync root; the FileWatcher maps no event
\* to a notification that is neither create, write, remove nor rename.
Protect(d, p) ==
  LET loc == RootLoc(p)
  IN  /\ fs[d][loc] # NoFile
      /\ ~Denied(fs[d][loc])
      /\ fs' = [fs EXCEPT ![d][loc] =
                  [data |-> @.data, mtime |-> @.mtime, denied |-> TRUE]]
      /\ last' = Record("Protect", d, d, NoMsg, << >>, {}, {})
      /\ UNCHANGED <<cfg, life, catalog, events, peers, conn, chan, clock,
                     tampers, rw>>

ScanNext ==
  \/ \E p \in cfg.files, data \in cfg.contents : UserWrite("device-1", p, data)
  \/ \E p \in cfg.files : UserRemove("device-1", p)
  \/ \E p \in cfg.files : Protect("device-1", p)
  \/ ProcessEvent("device-1")
  \/ Scan("device-1")

ScanSpec == ScanInit /\ [][ScanNext]_vars

\* C29: an ingest error does not abort scan(): when scan() returns, every
\* regular file under the sync root whose own ingest succeeds is in the
\* Catalog, whether or not the ingest of another file failed.
Ingestible(d, p) ==
  /\ fs[d][RootLoc(p)] # NoFile
  /\ ~processFile(fs[d], catalog[d], OsPath(p), p).err

C29_ScanSurvivesIngestError ==
  [][ last'.op = "ScanDirectory" =>
        \A p \in FsRel :
          Ingestible(last'.dev, p) =>
            GetFileMetadata(catalog'[last'.dev], p) # NoMeta ]_vars

(***************************************************************************)
(* The two watchers of the repository under a burst of notifications:      *)
(* watcher.FileWatcher, which the sync engine owns, and core.Watcher.      *)
(* life[d].errors is the buffered channel FileWatcher.errors; events[d] is *)
(* the events channel of whichever watcher runs on device d.               *)
(***************************************************************************)
\* core.Watcher after NewWatcher: watchLoop is running, done is open.
CoreStarted ==
  [done |-> FALSE, panicked |-> FALSE, closes |-> 0, run |-> "running",
   pending |-> NoMsg]

IsCore(lf) == "pending" \in DOMAIN lf

WatcherInit ==
  /\ cfg = [syncPath |-> RootAbs, cwd |-> RootAbs, files |-> {<<"a.txt">>},
            contents |-> SyncContents]
  /\ fs = [d \in Devices |->
             [TestLayout EXCEPT ![RootLoc(<<"a.txt">>)] =
                                  [data |-> Pattern(1), mtime |-> 0]]]
  /\ \E w \in {Standalone, CoreStarted} : life = [d \in Devices |-> w]
  /\ Constructed

\* FileWatcher.run, the case of watcher.Events: fsnotify reports a write of
\* a.txt (one write is commonly reported more than once).
Notified(d) ==
  /\ ~IsCore(life[d])
  /\ life[d].run = "running"
  /\ events' = [events EXCEPT ![d] =
                  handleEvent(@, [Path |-> OsPath(<<"a.txt">>),
                                  Operation |-> "write"])]
  /\ last' = Record("handleEvent", d, d, NoMsg, << >>, {}, {})
  /\ UNCHANGED <<cfg, life, fs, catalog, peers, conn, chan, clock, tampers, rw>>

\* FileWatcher.run, the case of watcher.Errors: non-blocking send.
ErrorNotified(d) ==
  /\ ~IsCore(life[d])
  /\ life[d].run = "running"
  /\ life' = [life EXCEPT ![d].errors =
                IF Len(@) < ErrorCap THEN Append(@, "error") ELSE @]
  /\ last' = Record("handleError", d, d, NoMsg, << >>, {}, {})
  /\ UNCHANGED <<cfg, fs, catalog, events, peers, conn, chan, clock, tampers, rw>>

\* Engine.handleFileEvents, the case of watcher.Errors(): the error is printed.
ErrorTaken(d) ==
  /\ ~IsCore(life[d])
  /\ life[d].drain = "running"
  /\ life[d].errors # << >>
  /\ life' = [life EXCEPT ![d].errors = Tail(@)]
  /\ last' = Record("handleFileEvents", d, d, NoMsg, << >>, {}, {})
  /\ UNCHANGED <<cfg, fs, catalog, events, peers, conn, chan, clock, tampers, rw>>

\* core.Watcher.watchLoop, the case of watcher.Events: handleEvent sends the
\* FileEvent with a plain channel send, which blocks while the buffer is full.
CoreNotified(d) ==
  LET fileEvent == [Path |-> <<"a.txt">>, Operation |-> "modify"]
  IN  /\ IsCore(life[d])
      /\ life[d].run = "running"
      /\ IF Len(events[d]) < CoreEventCap
         THEN /\ events' = [events EXCEPT ![d] = Append(@, fileEvent)]
              /\ UNCHANGED life
         ELSE /\ life' = [life EXCEPT ![d].run = "sending",
                                      ![d].pending = fileEvent]
              /\ UNCHANGED events
      /\ last' = Record("core.handleEvent", d, d, NoMsg, << >>, {}, {})
      /\ UNCHANGED <<cfg, fs, catalog, peers, conn, chan, clock, tampers, rw>>

\* The consumer of core.Watcher.Events() receives one event; a sender that
\* was blocked on the full buffer completes its send.
CoreTaken(d) ==
  /\ IsCore(life[d])
  /\ events[d] # << >>
  /\ IF life[d].run = "sending"
     THEN /\ events' = [events EXCEPT ![d] = Append(Tail(@), life[d].pending)]
          /\ life' = [life EXCEPT ![d].run = "running", ![d].pending = NoMsg]
     ELSE /\ events' = [events EXCEPT ![d] = Tail(@)]
          /\ UNCHANGED life
  /\ last' = Record("core.syncLoop", d, d, NoMsg, << >>, {}, {})
  /\ UNCHANGED <<cfg, fs, catalog, peers, conn, chan, clock, tampers, rw>>

\* core.Watcher.Close: close(w.done), which panics on a closed channel.
CoreClose(d) ==
  /\ IsCore(life[d])
  /\ ~life[d].panicked
  /\ life[d].closes < MaxClose
  /\ life' = [life EXCEPT ![d].panicked = life[d].done,
                          ![d].done = TRUE,
                          ![d].closes = IF life[d].done THEN @ ELSE @ + 1]
  /\ last' = Record("core.Close", d, d, NoMsg, << >>, {}, {})
  /\ UNCHANGED <<cfg, fs, catalog, events, peers, conn, chan, clock, tampers, rw>>

\* core.Watcher.watchLoop, the case of w.done: taken only by a loop that is
\* at its select, not by one inside handleEvent.
CoreExit(d) ==
  /\ IsCore(life[d])
  /\ life[d].run = "running"
  /\ life[d].done
  /\ life' = [life EXCEPT ![d].run = "stopped"]
  /\ last' = Record("core.watchLoopExit", d, d, NoMsg, << >>, {}, {})
  /\ UNCHANGED <<cfg, fs, catalog, events, peers, conn, chan, clock, tampers, rw>>

WatcherNext ==
  \/ Notified("device-1")
  \/ ErrorNotified("device-1")
  \/ ErrorTaken("device-1")
  \/ ~IsCore(life["device-1"]) /\ ProcessEvent("device-1")
  \/ ~IsCore(life["device-1"]) /\ Close("device-1")
  \/ ~IsCore(life["device-1"]) /\ RunExit("device-1")
  \/ CoreNotified("device-1")
  \/ CoreTaken("device-1")
  \/ CoreClose("device-1")
  \/ CoreExit("device-1")

WatcherSpec == WatcherInit /\ [][WatcherNext]_vars

\* C30: watcher back-pressure: the event buffer never holds more than its
\* capacity and the error buffer never more than its own; a notification
\* that finds the buffer full is dropped, and the watcher's loop is never
\* blocked in a send, so that it can still take the next notification or
\* see close().
EventCapOf(lf) == IF IsCore(lf) THEN CoreEventCap ELSE EventCap

C30_WatcherBackPressure ==
  [][ \A d \in Devices :
        /\ Len(events'[d]) <= EventCapOf(life'[d])
        /\ ~IsCore(life'[d]) => Len(life'[d].errors) <= ErrorCap
        /\ life'[d].run # "sending"
        /\ (last'.op \in {"handleEvent", "core.handleEvent"} /\ last'.dev = d /\
            Len(events[d]) = EventCapOf(life[d])) => events'[d] = events[d] ]_vars

(***************************************************************************)
(* FileWatcher and a subdirectory that is created after the engine was     *)
(* started.  fsnotify watches are per directory, not recursive: a change   *)
(* inside a directory is reported only while that directory is watched.    *)
(* life[d].watches is the set of directories fsnotify watches,             *)
(* life[d].watchDirs is FileWatcher.watchDirs, and life[d].notes is the    *)
(* channel fsnotify.Watcher.Events.                                        *)
(***************************************************************************)
SubDir == Join(RootAbs, <<"sub">>)
InSub == <<"sub", "b.txt">>
DirEntry == [dir |-> TRUE]

IsDir(fsd, path) == path \in DOMAIN fsd /\ fsd[path] = DirEntry

\* handleEvent that does not look at what was created.
AddPathSkipped(dirs, fsd, note) == dirs

\* handleEvent, the create case: FileWatcher.watchDirs after AddPath(name)
\* when name is a directory; dirs otherwise.
AddPathOnCreate(dirs, fsd, note) ==
  IF note.Op = "create" /\ IsDir(fsd, note.Name) THEN dirs \cup {note.Name} ELSE dirs

\* NewEngine with AddPath(syncPath) on a sync root without subdirectories.
Watching ==
  Standalone @@ [watches |-> {RootAbs}, watchDirs |-> {RootAbs}, notes |-> << >>]

DirInit ==
  /\ cfg = [syncPath |-> RootAbs, cwd |-> RootAbs, files |-> {InSub},
            contents |-> SyncContents]
  /\ fs = [d \in Devices |-> [loc \in Locs \cup {SubDir} |-> NoFile]]
  /\ life = [d \in Devices |-> Watching]
  /\ Constructed

\* fsnotify reports a change of name when the directory holding it is watched.
Notify(lf, dir, name, op) ==
  IF dir \in lf.watches
  THEN [lf EXCEPT !.notes = Append(@, [Name |-> name, Op |-> op])]
  ELSE lf

\* mkdir sync-root/sub
Mkdir(d) ==
  /\ fs[d][SubDir] = NoFile
  /\ Len(life[d].notes) < MaxNotes
  /\ fs' = [fs EXCEPT ![d][SubDir] = DirEntry]
  /\ life' = [life EXCEPT ![d] = Notify(@, RootAbs, SubDir, "create")]
  /\ last' = Record("Mkdir", d, d, NoMsg, << >>, {}, {})
  /\ UNCHANGED <<cfg, catalog, events, peers, conn, chan, clock, tampers, rw>>

\* rmdir sync-root/sub: the kernel drops the watch of the removed directory.
Rmdir(d) ==
  /\ fs[d][SubDir] = DirEntry
  /\ fs[d][RootLoc(InSub)] = NoFile
  /\ Len(life[d].notes) < MaxNotes
  /\ fs' = [fs EXCEPT ![d][SubDir] = NoFile]
  /\ life' = [life EXCEPT ![d] =
                [Notify(@, RootAbs, SubDir, "remove") EXCEPT
                   !.watches = @ \ {SubDir}]]
  /\ last' = Record("Rmdir", d, d, NoMsg, << >>, {}, {})
  /\ UNCHANGED <<cfg, catalog, events, peers, conn, chan, clock, tampers, rw>>

\* The user writes or removes sync-root/sub/b.txt.
WriteInside(d, data) ==
  LET loc == RootLoc(InSub)
  IN  /\ fs[d][SubDir] = DirEntry
      /\ Len(life[d].notes) < MaxNotes
      /\ clock["device-1"] + clock["device-2"] < MaxClock
      /\ fs' = [fs EXCEPT ![d][loc] = [data |-> data, mtime |-> clock[d] + 1]]
      /\ clock' = [clock EXCEPT ![d] = @ + 1]
      /\ life' = [life EXCEPT ![d] =
                    Notify(@, SubDir, loc,
                           IF fs[d][loc] = NoFile THEN "create" ELSE "write")]
      /\ last' = Record("WriteInside", d, d, NoMsg, << >>, {loc}, {})
      /\ UNCHANGED <<cfg, catalog, events, peers, conn, chan, tampers, rw>>

RemoveInside(d) ==
  LET loc == RootLoc(InSub)
  IN  /\ fs[d][loc] # NoFile
      /\ Len(life[d].notes) < MaxNotes
      /\ fs' = [fs EXCEPT ![d][loc] = NoFile]
      /\ life' = [life EXCEPT ![d] = Notify(@, SubDir, loc, "remove")]
      /\ last' = Record("RemoveInside", d, d, NoMsg, << >>, {loc}, {})
      /\ UNCHANGED <<cfg, catalog, events, peers, conn, chan, clock, tampers, rw>>

\* FileWatcher.run, the case of watcher.Events: handleEvent subscribes to a
\* created directory, then sends the FileEvent without blocking.
RunTakes(d) ==
  /\ life[d].run = "running"
  /\ life[d].notes # << >>
  /\ LET note == Head(life[d].notes)
         fileEvent == [Path |-> note.Name, Operation |-> note.Op]
     IN  /\ life' = [life EXCEPT
                       ![d].notes = Tail(@),
                       ![d].watchDirs = AddPathOnCreate(@, fs[d], note),
                       ![d].watches = AddPathOnCreate(@, fs[d], note)]
         /\ events' = [events EXCEPT ![d] = handleEvent(@, fileEvent)]
         /\ last' = Record("run", d, d, fileEvent, << >>, {}, {})
  /\ UNCHANGED <<cfg, fs, catalog, peers, conn, chan, clock, tampers, rw>>

DirNext ==
  \/ Mkdir("device-1")
  \/ Rmdir("device-1")
  \/ \E data \in cfg.contents : WriteInside("device-1", data)
  \/ RemoveInside("device-1")
  \/ RunTakes("device-1")
  \/ ProcessEvent("device-1")

DirSpec == DirInit /\ [][DirNext]_vars

\* C31: subscription before delivery: when FileWatcher delivers the create
\* event of a new subdirectory it has already subscribed to it, and every
\* event it delivers for a path inside the subdirectory is delivered while
\* the subdirectory is in the watched set.
Delivered(d) == last'.op = "run" /\ last'.dev = d /\ events'[d] # events[d]

C32_CloseEndsSequences ==
  life["device-1"].done ~> (life["device-1"].drain = "stopped")

(***************************************************************************)
(* A received file whose write-out fails: os.WriteFile opens the target    *)
(* with O_TRUNC and writes in place, so a write error (disk full, quota,   *)
(* I/O error) after k bytes leaves the first k bytes at the target.        *)
(***************************************************************************)
\* writeReceivedFile when os.WriteFile fails after k bytes: the device state
\* after the call; the error is returned before os.Stat and
\* StoreFileMetadata.
writeReceivedFileFails(st, path, data, k) ==
  LET fullPath == Join(cfg.syncPath, Base(path))
      loc == Resolve(fullPath)
      old == st.fs[loc]
  IN  [fs |-> [st.fs EXCEPT ![loc] = [data |-> SubSeq(data, 1, k),
                                      mtime |-> st.clock + 1]],
       clock |-> st.clock + 1,
       events |-> handleEvent(st.events,
                    [Path |-> fullPath,
                     Operation |-> IF old = NoFile THEN "create" ELSE "write"]),
       cat |-> st.cat,
       written |-> {loc},
       stored |-> {}]

\* handleConnection / handleMessage / handleFileResponse for a file_response
\* whose chunks open, with the write-out failing after k bytes.
DeliverWriteFails(from, d, k) ==
  /\ chan[<<from, d>>] # << >>
  /\ ~DecodeMessage(Head(chan[<<from, d>>])).err
  /\ LET msg == DecodeMessage(Head(chan[<<from, d>>])).msg
         opened == DecryptAll(SharedKey, msg.Data.Response.Chunks)
         data == ReassembleChunks(opened.chunks)
         st == writeReceivedFileFails(StateOf(d), msg.Data.Response.Path, data, k)
     IN  /\ IsSync(msg, "file_response")
         /\ ~opened.err
         /\ k < Len(data)
         /\ clock["device-1"] + clock["device-2"] < MaxClock
         /\ peers' = [peers EXCEPT ![d] = updatePeer(d, @, msg.DeviceID)]
         /\ fs' = [fs EXCEPT ![d] = st.fs]
         /\ clock' = [clock EXCEPT ![d] = st.clock]
         /\ events' = [events EXCEPT ![d] = st.events]
         /\ catalog' = [catalog EXCEPT ![d] = st.cat]
         /\ rw' = [rw EXCEPT ![d] =
                     [p \in FsRel |->
                        IF RootLoc(p) \in st.written THEN NotApplicable
                        ELSE rw[d][p]]]
         /\ chan' = [chan EXCEPT ![<<from, d>>] = Tail(@)]
         /\ last' = Record("writeFails", d, msg.DeviceID, msg, << >>,
                           st.written, st.stored)
  /\ UNCHANGED <<cfg, life, conn, tampers>>

FaultNext ==
  \/ \E p \in cfg.files, data \in cfg.contents : UserWrite("device-1", p, data)
  \/ \E d \in Devices : ProcessEvent(d)
  \/ \E d \in Devices : LinkDial(d)
  \/ \E d \in Devices : BroadcastFileList(d)
  \/ \E from \in Devices, d \in Devices : Deliver(from, d)
  \/ \E from \in Devices, d \in Devices : \E k \in 0..MaxLen :
       DeliverWriteFails(from, d, k)

FaultSpec == LinkInit /\ [][FaultNext]_vars

\* C33: a failed write-out is atomic: when writing a received file fails,
\* the file at the target path keeps its previous content or stays absent,
\* and the Catalog is not updated.
C33_FailedWriteIsAtomic ==
  [][ last'.op = "writeFails" => (fs' = fs /\ catalog' = catalog) ]_vars

(***************************************************************************)
(* One PeerNetwork with connections to two remote peers, either of which   *)
(* may stop reading its socket.  life[d] holds the state of pn.mu, the     *)
(* position of BroadcastMessage in its loop over pn.peers, and for each    *)
(* connection the position of its handleConnection goroutine, the number   *)
(* of messages waiting to be decoded and the number of broadcast messages  *)
(* written to it; peers[d] is the keys of pn.peers.                        *)
(***************************************************************************)
Remotes == {"peer-a", "peer-b"}

\* A PeerNetwork after Start, with both remote peers connected and a
\* handleConnection goroutine blocked in Decode on each connection.
Hub ==
  [mu |-> "free", todo |-> {}, blocked |-> "none", cycles |-> 0, stalled |-> {},
   reader |-> [p \in Remotes |-> "decode"],
   inbox |-> [p \in Remotes |-> 0],
   got |-> [p \in Remotes |-> 0]]

HubInit ==
  /\ cfg = [syncPath |-> RootAbs, cwd |-> RootAbs, files |-> {<<"a.txt">>},
            contents |-> SyncContents]
  /\ fs = [d \in Devices |-> TestLayout]
  /\ life = [d \in Devices |-> Hub]
  /\ Constructed

HubStep(d, op, lf, table) ==
  /\ life' = [life EXCEPT ![d] = lf]
  /\ peers' = [peers EXCEPT ![d] = table]
  /\ last' = Record(op, d, d, NoMsg, << >>, {}, {})
  /\ UNCHANGED <<cfg, fs, catalog, events, conn, chan, clock, tampers, rw>>

\* Remote peer p writes a message to its connection.
PeerWrites(d, p) ==
  /\ life[d].inbox[p] < MaxQueue
  /\ HubStep(d, "peerWrites", [life[d] EXCEPT !.inbox[p] = @ + 1], peers[d])

\* Remote peer p stops reading its socket: from now on a write to its
\* connection blocks (no write deadline is set on the connection).
Stall(d, p) ==
  /\ p \notin life[d].stalled
  /\ HubStep(d, "stall", [life[d] EXCEPT !.stalled = @ \cup {p}], peers[d])

\* handleConnection of p: decoder.Decode returns a message; the goroutine
\* goes on to updatePeer, which takes pn.mu.Lock().
ReadMessage(d, p) ==
  /\ life[d].reader[p] = "decode"
  /\ life[d].inbox[p] > 0
  /\ HubStep(d, "handleConnection",
             [life[d] EXCEPT !.reader[p] = "lock", !.inbox[p] = @ - 1], peers[d])

\* handleConnection of p: updatePeer gets the write lock, registers p and
\* unlocks; onMessage handles the message; back to Decode.
Register(d, p) ==
  /\ life[d].reader[p] = "lock"
  /\ life[d].mu = "free"
  /\ HubStep(d, "updatePeer", [life[d] EXCEPT !.reader[p] = "decode"],
             peers[d] \cup {p})

\* periodicSync tick: BroadcastMessage takes pn.mu.RLock() and starts its
\* loop over pn.peers.
BroadcastMessage(d) ==
  /\ life[d].mu = "free"
  /\ life[d].cycles < MaxCycles
  /\ peers[d] # {}
  /\ HubStep(d, "BroadcastMessage",
             [life[d] EXCEPT !.mu = "rlocked", !.todo = peers[d],
                             !.cycles = @ + 1], peers[d])

\* BroadcastMessage: encoder.Encode(msg) on the connection of the next peer
\* of the map iteration (any order); on a stalled connection the write
\* blocks.
Encode(d, p) ==
  /\ life[d].mu = "rlocked"
  /\ life[d].blocked = "none"
  /\ p \in life[d].todo
  /\ HubStep(d, "Encode",
             IF p \in life[d].stalled
             THEN [life[d] EXCEPT !.blocked = p]
             ELSE [life[d] EXCEPT !.todo = @ \ {p}, !.got[p] = @ + 1],
             peers[d])

\* BroadcastMessage returns: the deferred RUnlock.
BroadcastReturns(d) ==
  /\ life[d].mu = "rlocked"
  /\ life[d].todo = {}
  /\ HubStep(d, "BroadcastReturns", [life[d] EXCEPT !.mu = "free"], peers[d])

HubNext ==
  \/ \E p \in Remotes : PeerWrites("device-1", p)
  \/ \E p \in Remotes : Stall("device-1", p)
  \/ \E p \in Remotes : ReadMessage("device-1", p)
  \/ \E p \in Remotes : Register("device-1", p)
  \/ BroadcastMessage("device-1")
  \/ \E p \in Remotes : Encode("device-1", p)
  \/ BroadcastReturns("device-1")

HubSpec == HubInit /\ [][HubNext]_vars

\* C34: peer isolation: a peer whose socket does not accept writes does not
\* stop the device from exchanging messages with the other peers: the
\* broadcast is never stuck with a healthy peer still to be written to, and
\* the reader of a healthy peer's connection is never stuck before
\* registering and handling a message it has received.
StuckBehind(lf, q) ==
  /\ lf.blocked # "none"
  /\ q \notin lf.stalled
  /\ q \in lf.todo \/ lf.reader[q] = "lock"

C34_PeerIsolation ==
  \A q \in Remotes : ~StuckBehind(life["device-1"], q)

(***************************************************************************)
(* pkg/core: two SyncEngines connected to each other.  events[d] is the    *)
(* channel of the core.Watcher of device d, catalog[d] its files table,    *)
(* and chan[<<from, to>>] the SendCh of the peer `to` on device `from`     *)
(* followed by the WebSocket connection.                                   *)
(***************************************************************************)
CoreFile == <<"a.txt">>
CoreContents == { Pattern(n) : n \in 0..MaxLen }

CoreSyncInit ==
  /\ cfg = [syncPath |-> RootAbs, cwd |-> RootAbs, files |-> {CoreFile},
            contents |-> CoreContents]
  /\ fs = [d \in Devices |-> TestLayout]
  /\ life = [d \in Devices |-> CoreStarted]
  /\ catalog = [d \in Devices |-> EmptyCatalog]
  /\ events = [d \in Devices |-> << >>]
  /\ peers = [d \in Devices |-> {Other(d)}]
  /\ conn = TRUE
  /\ chan = [c \in Devices \X Devices |-> << >>]
  /\ clock = [d \in Devices |-> 0]
  /\ tampers = 0
  /\ rw = [d \in Devices |-> [p \in FsRel |-> NotApplicable]]
  /\ last = Record("init", "device-1", "device-1", NoMsg, << >>, {}, {})

\* core.Watcher.handleEvent for a notification of relPath: the FileEvent it
\* sends, with the size, time and hash of the file as it is now.
CoreFileEvent(fsd, relPath, type) ==
  LET f == fsd[RootLoc(relPath)]
  IN  IF type = "delete"
      THEN [Path |-> relPath, Type |-> type, Size |-> 0, ModTime |-> 0,
            Hash |-> Sha256(<< >>)]
      ELSE [Path |-> relPath, Type |-> type, Size |-> Len(f.data),
            ModTime |-> f.mtime, Hash |-> Sha256(f.data)]

\* The user writes or removes the file; the watcher sends the event.
CoreUserWrite(d, data) ==
  LET loc == RootLoc(CoreFile)
      fs2 == [fs[d] EXCEPT ![loc] = [data |-> data, mtime |-> clock[d] + 1]]
  IN  /\ clock["device-1"] + clock["device-2"] < MaxClock
      /\ Len(events[d]) < CoreEventCap
      /\ fs' = [fs EXCEPT ![d] = fs2]
      /\ clock' = [clock EXCEPT ![d] = @ + 1]
      /\ events' = [events EXCEPT ![d] =
                      Append(@, CoreFileEvent(fs2, CoreFile,
                                  IF fs[d][loc] = NoFile THEN "create" ELSE "modify"))]
      /\ last' = Record("CoreUserWrite", d, d, NoMsg, << >>, {loc}, {})
      /\ UNCHANGED <<cfg, life, catalog, peers, conn, chan, tampers, rw>>

CoreUserRemove(d) ==
  LET loc == RootLoc(CoreFile)
  IN  /\ fs[d][loc] # NoFile
      /\ Len(events[d]) < CoreEventCap
      /\ fs' = [fs EXCEPT ![d][loc] = NoFile]
      /\ events' = [events EXCEPT ![d] =
                      Append(@, CoreFileEvent(fs[d], CoreFile, "delete"))]
      /\ last' = Record("CoreUserRemove", d, d, NoMsg, << >>, {loc}, {})
      /\ UNCHANGED <<cfg, life, catalog, peers, conn, chan, clock, tampers, rw>>

\* broadcastEvent: the SyncMessage built for the event; the content is
\* attached for a create or modify of a file below the limit that can be
\* read.
broadcastEvent(fsd, event) ==
  LET f == fsd[RootLoc(event.Path)]
  IN  [Type |-> "file_" \o event.Type, Path |-> event.Path, Hash |-> event.Hash,
       Size |-> event.Size, ModTime |-> event.ModTime,
       Content |-> IF event.Type # "delete" /\ event.Size < ContentLimit
                      /\ f # NoFile
                   THEN f.data ELSE << >>]

\* SyncEngine.syncLoop / handleFileEvent: the record is updated, then the
\* message is sent to every peer whose SendCh has room.
handleFileEvent(d) ==
  /\ events[d] # << >>
  /\ LET event == Head(events[d])
         msg == broadcastEvent(fs[d], event)
     IN  /\ catalog' = [catalog EXCEPT ![d] =
                          IF event.Type = "delete"
                          THEN DeleteFileMetadata(@, event.Path)
                          ELSE StoreFileMetadata(@,
                                 [Path |-> event.Path, Size |-> event.Size,
                                  ModTime |-> event.ModTime, Hash |-> event.Hash])]
         /\ chan' = [c \in Devices \X Devices |->
                       IF c[1] = d /\ c[2] \in peers[d] /\ Len(chan[c]) < SendCap
                       THEN Append(chan[c], msg) ELSE chan[c]]
         /\ last' = Record("handleFileEvent", d, d, msg, <<msg>>, {}, {event.Path})
  /\ events' = [events EXCEPT ![d] = Tail(@)]
  /\ UNCHANGED <<cfg, life, fs, peers, conn, clock, tampers, rw>>

\* messageSender / messageReceiver / HandlePeerMessage: handleFileUpdate
\* and handleFileDelete; the watcher of d reports what was written.
HandlePeerMessage(from, d) ==
  /\ chan[<<from, d>>] # << >>
  /\ Len(events[d]) < CoreEventCap
  /\ LET msg == Head(chan[<<from, d>>])
         loc == RootLoc(msg.Path)
         existing == GetFileMetadata(catalog[d], msg.Path)
         written == [data |-> msg.Content, mtime |-> msg.ModTime]
         fs2 == [fs[d] EXCEPT ![loc] = written]
     IN  IF msg.Type = "file_delete"
         THEN /\ fs' = [fs EXCEPT ![d][loc] = NoFile]
              /\ events' = [events EXCEPT ![d] =
                              IF fs[d][loc] = NoFile THEN @
                              ELSE Append(@, CoreFileEvent(fs[d], msg.Path, "delete"))]
              /\ catalog' = [catalog EXCEPT ![d] = DeleteFileMetadata(@, msg.Path)]
              /\ last' = Record("handleFileDelete", d, from, msg, << >>, {loc}, {})
         ELSE IF (existing # NoMeta /\ existing.Hash = msg.Hash) \/ Len(msg.Content) = 0
         THEN /\ UNCHANGED <<fs, events, catalog>>
              /\ last' = Record("handleFileUpdate", d, from, msg, << >>, {}, {})
         ELSE /\ fs' = [fs EXCEPT ![d] = fs2]
              /\ events' = [events EXCEPT ![d] =
                              Append(@, CoreFileEvent(fs2, msg.Path,
                                          IF fs[d][loc] = NoFile THEN "create"
                                                                 ELSE "modify"))]
              /\ catalog' = [catalog EXCEPT ![d] =
                               StoreFileMetadata(@,
                                 [Path |-> msg.Path, Size |-> msg.Size,
                                  ModTime |-> msg.ModTime, Hash |-> msg.Hash])]
              /\ last' = Record("handleFileUpdate", d, from, msg, << >>, {loc},
                                {msg.Path})
  /\ chan' = [chan EXCEPT ![<<from, d>>] = Tail(@)]
  /\ UNCHANGED <<cfg, life, peers, conn, clock, tampers, rw>>

CoreSyncNext ==
  \/ \E data \in cfg.contents : CoreUserWrite("device-1", data)
  \/ CoreUserRemove("device-1")
  \/ \E d \in Devices : handleFileEvent(d)
  \/ \E from \in Devices : HandlePeerMessage(from, Other(from))

CoreSyncSpec == CoreSyncInit /\ [][CoreSyncNext]_vars

\* C35: two-way sync in pkg/core: a file created or modified on one device
\* while the peer is connected ends up on the peer with identical content,
\* whatever its size, and a file deleted on one device is removed on the
\* peer: once every event has been handled and every message received, the
\* two sync roots hold the same file.
Quiet ==
  /\ \A d \in Devices : events[d] = << >>
  /\ \A c \in Devices \X Devices : chan[c] = << >>

SameFile(f, g) ==
  IF f = NoFile \/ g = NoFile THEN f = g ELSE f.data = g.data

C35_CoreTwoWaySync ==
  Quiet => SameFile(fs["device-1"][RootLoc(CoreFile)],
                    fs["device-2"][RootLoc(CoreFile)])

(***************************************************************************)
(* A connection on which a peer writes two messages back to back.          *)
(***************************************************************************)
Burst(from, d, w1, w2) ==
  /\ conn
  /\ w1 # w2
  /\ \A c \in Devices \X Devices : chan[c] = << >>
  /\ chan' = [chan EXCEPT ![<<from, d>>] = <<w1, w2>>]
  /\ last' = Record("burst", from, from, w1, <<w1, w2>>, {}, {})
  /\ UNCHANGED <<cfg, life, fs, catalog, events, peers, conn, clock, tampers, rw>>

OrderNext ==
  \/ \E p \in cfg.files, data \in cfg.contents : UserWrite("device-1", p, data)
  \/ \E d \in Devices : ProcessEvent(d)
  \/ \E d \in Devices : LinkDial(d)
  \/ \E d \in Devices : BroadcastFileList(d)
  \/ \E from \in Devices, d \in Devices : Deliver(from, d)
  \/ \E from \in Devices : \E w1, w2 \in Wires(from) \ {Malformed} :
       Burst(from, Other(from), w1, w2)

OrderSpec == LinkInit /\ [][OrderNext]_vars

Ingesting ==
  Standalone @@ [ingest |-> [pc |-> "idle", info |-> NoFile, chunks |-> << >>]]

IngestInit ==
  /\ cfg = [syncPath |-> RootAbs, cwd |-> RootAbs, files |-> {<<"a.txt">>},
            contents |-> WriteContents]
  /\ fs = [d \in Devices |-> TestLayout]
  /\ life = [d \in Devices |-> Ingesting]
  /\ Constructed

\* One step of ScanDirectory's processFile(path, relPath) for a.txt.
processFileStep(d) ==
  LET relPath == <<"a.txt">>
      filePath == OsPath(relPath)
      frame == life[d].ingest
      f == Stat(fs[d], filePath)
      existing == GetFileMetadata(catalog[d], relPath)
      metadata == [Path |-> relPath,
                   Hash |-> Sha256(f.data),
                   Size |-> Len(frame.info.data),
                   ModTime |-> frame.info.mtime,
                   Chunks |-> HashesOf(frame.chunks),
                   Version |-> IF existing = NoMeta THEN 1
                               ELSE existing.Version + 1]
  IN  /\ f # NoFile
      /\ existing # NoMeta => existing.Version < MaxVersion
      /\ IF frame.pc = "idle"
         THEN /\ life' = [life EXCEPT ![d].ingest =
                            [pc |-> "stat", info |-> f, chunks |-> << >>]]
              /\ UNCHANGED <<catalog, rw>>
         ELSE IF frame.pc = "stat"
         THEN /\ life' = [life EXCEPT ![d].ingest =
                            [frame EXCEPT !.pc = "chunked",
                               !.chunks = ChunkFile(fs[d], NewChunker(EngineChunkSize),
                                                    filePath).chunks]]
              /\ UNCHANGED <<catalog, rw>>
         ELSE /\ life' = [life EXCEPT ![d].ingest =
                            [pc |-> "idle", info |-> NoFile, chunks |-> << >>]]
              /\ catalog' = [catalog EXCEPT ![d] = StoreFileMetadata(@, metadata)]
              /\ rw' = [rw EXCEPT ![d] =
                          RwAfter(@, StoreFileMetadata(catalog[d], metadata))]
      /\ last' = Record("processFileStep", d, d, NoMsg, << >>, {}, {relPath})
      /\ UNCHANGED <<cfg, fs, events, peers, conn, chan, clock, tampers>>

IngestNext ==
  \/ \E p \in cfg.files, data \in cfg.contents : UserWrite("device-1", p, data)
  \/ ProcessEvent("device-1")
  \/ processFileStep("device-1")

IngestSpec == IngestInit /\ [][IngestNext]_vars

\* C37: no torn record: whatever the interleaving of scan(), the event task
\* and rewrites of the file, the size, the whole-file hash and the
\* chunk-hash list of a stored record all describe one and the same content.
Describes(r, data) ==
  /\ r.Size = Len(data)
  /\ r.Hash = Sha256(data)
  /\ r.Chunks = HashesOf(SplitBytes(data, NewChunker(EngineChunkSize)))

C37_NoTornRecord ==
  \A p \in DOMAIN catalog["device-1"] :
    \E data \in cfg.contents : Describes(catalog["device-1"][p], data)

\* C38: metadata consistency: a record stored when a file_response is
\* applied, like one stored by local ingest, has a whole-file hash equal to
\* the SHA-256 of the content written, a size equal to its length, and a
\* chunk-hash list that is a split of that content.
C38_RecordDescribesContent ==
  [][ (last'.op = "handleMessage" /\ last'.stored # {}) =>
        \A k \in last'.stored : \A loc \in last'.written :
          LET r == GetFileMetadata(catalog'[last'.dev], k)
              data == fs'[last'.dev][loc].data
          IN  /\ r # NoMeta
              /\ r.Size = Len(data)
              /\ \E size \in {NewChunker(EngineChunkSize), DefaultChunkSize} :
                   r.Chunks = HashesOf(SplitBytes(data, size))
              /\ r.Hash = Sha256(data) ]_vars

\* The receiver d holds the record writeReceivedFile stored when it applied
\* the file the entry remoteFile describes: only writeReceivedFile stores a
\* record without a whole-file hash, and the file it wrote is still there,
\* unedited, with the content the entry names.
AppliedEntry(d, remoteFile) ==
  \E k \in DOMAIN catalog[d] :
    LET r == catalog[d][k]
        file == fs[d][Resolve(k)]
    IN  /\ r.Hash = ZeroHash
        /\ r.Version = 1
        /\ Base(k) = Base(remoteFile.Path)
        /\ file # NoFile
        /\ file.mtime = r.ModTime
        /\ Sha256(file.data) = remoteFile.Hash

\* C39: quiescence: once a receiver has applied a file it requested, a later
\* file_list carrying the same entry causes no new file_request for it.
C39_NoRequestAfterApply ==
  HandledSync("file_list") =>
    \A i \in 1..Len(last.msg.Data.Files) :
      AppliedEntry(last.dev, last.msg.Data.Files[i]) =>
        \A j \in 1..Len(last.sent) :
          last.sent[j] # RequestOf(last.dev, last.msg.Data.Files[i])

(***************************************************************************)
(* pkg/core peer channels: SyncEngine.peers is a plain map and Peer.SendCh *)
(* a buffered channel; the sync loop ranges over the map in broadcastEvent *)
(* while connection handler tasks run AddPeer and RemovePeer, and no lock  *)
(* orders them.  peers[d] is the key set of s.peers.                       *)
(***************************************************************************)
\* sendCh: what each Peer.SendCh holds; closed: the peers whose SendCh was
\* closed; msg, todo, peer: the message, the entries left and the loop
\* variable of the range in broadcastEvent; crash: the runtime error that
\* ended the process.
Channels ==
  [sendCh |-> [p \in Remotes |-> << >>], closed |-> {}, msg |-> NoMsg,
   todo |-> {}, peer |-> "none", cycles |-> 0, skipped |-> 0,
   crash |-> "none"]

PeerChanInit ==
  /\ cfg = [syncPath |-> RootAbs, cwd |-> RootAbs, files |-> {CoreFile},
            contents |-> CoreContents]
  /\ fs = [d \in Devices |->
             [TestLayout EXCEPT ![RootLoc(CoreFile)] = [data |-> <<1>>, mtime |-> 1]]]
  /\ life = [d \in Devices |-> Channels]
  /\ Constructed

\* The outcomes of a write to s.peers made while broadcastEvent ranges over
\* it: the runtime may or may not detect the unsynchronised access.
MapWrite(lf) ==
  IF lf.msg = NoMsg THEN {"none"}
  ELSE {"none", "concurrent map iteration and map write"}

\* select { case peer.SendCh <- msg: default: }: the channel after the
\* statement; a full channel is left as it is.
TrySend(queue, msg) ==
  IF Len(queue) < SendCap THEN Append(queue, msg) ELSE queue

\* AddPeer, run by handleWebSocket or ConnectToPeer for a new connection:
\* a new Peer with an empty SendCh enters the map; a range in progress may
\* or may not produce the new entry.
AddPeer(d, p) ==
  /\ life[d].crash = "none"
  /\ p \notin peers[d] \cup life[d].closed
  /\ \E c \in MapWrite(life[d]) : \E seen \in SUBSET {p} :
       HubStep(d, "AddPeer",
               [life[d] EXCEPT !.crash = c,
                               !.todo = IF life[d].msg = NoMsg THEN @
                                        ELSE @ \cup seen],
               peers[d] \cup {p})

\* RemovePeer, deferred by the connection handler of p: close(peer.SendCh),
\* then delete(s.peers, peerID).
RemovePeer(d, p) ==
  /\ life[d].crash = "none"
  /\ p \in peers[d]
  /\ \E c \in MapWrite(life[d]) :
       HubStep(d, "RemovePeer",
               [life[d] EXCEPT !.crash = c, !.closed = @ \cup {p},
                               !.todo = @ \ {p}],
               peers[d] \ {p})

\* messageSender of p: a message is received from peer.SendCh and written to
\* the connection.
messageSender(d, p) ==
  /\ life[d].crash = "none"
  /\ life[d].sendCh[p] # << >>
  /\ HubStep(d, "messageSender", [life[d] EXCEPT !.sendCh[p] = Tail(@)],
             peers[d])

\* syncLoop takes a file event; broadcastEvent builds the message and starts
\* its range over s.peers.
broadcastRange(d, type) ==
  /\ life[d].crash = "none"
  /\ life[d].msg = NoMsg
  /\ life[d].cycles < MaxCycles
  /\ HubStep(d, "broadcastEvent",
             [life[d] EXCEPT !.msg = broadcastEvent(fs[d],
                                       CoreFileEvent(fs[d], CoreFile, type)),
                             !.todo = peers[d], !.cycles = @ + 1],
             peers[d])

\* The range yields its next entry: peer is bound to the Peer of p.
broadcastNext(d, p) ==
  /\ life[d].crash = "none"
  /\ life[d].msg # NoMsg
  /\ life[d].peer = "none"
  /\ p \in life[d].todo
  /\ HubStep(d, "range", [life[d] EXCEPT !.peer = p, !.todo = @ \ {p}],
             peers[d])

\* The select of the loop body on the Peer the loop variable holds: a send
\* on a closed channel panics, default or not; a full channel is skipped.
broadcastSend(d) ==
  LET p == life[d].peer
  IN  /\ life[d].crash = "none"
      /\ p # "none"
      /\ HubStep(d, "send",
                 IF p \in life[d].closed
                 THEN [life[d] EXCEPT !.crash = "send on closed channel"]
                 ELSE [life[d] EXCEPT
                         !.sendCh[p] = TrySend(@, life[d].msg),
                         !.skipped = IF Len(life[d].sendCh[p]) < SendCap
                                     THEN @ ELSE 1,
                         !.peer = "none"],
                 peers[d])

\* The range is over: broadcastEvent returns to syncLoop.
broadcastDone(d) ==
  /\ life[d].crash = "none"
  /\ life[d].msg # NoMsg
  /\ life[d].peer = "none"
  /\ life[d].todo = {}
  /\ HubStep(d, "broadcastDone", [life[d] EXCEPT !.msg = NoMsg], peers[d])

\* handleFileRequest, called through HandlePeerMessage by the connection
\* handler of p (the task that later runs RemovePeer(p)): the peer is
\* looked up and the response sent without blocking; on a full channel the
\* call returns an error and the channel is left as it is.
coreHandleFileRequest(d, p) ==
  /\ life[d].crash = "none"
  /\ p \in peers[d]
  /\ HubStep(d, "handleFileRequest",
             [life[d] EXCEPT !.sendCh[p] =
                TrySend(@, [Type |-> "file_modify", Path |-> CoreFile,
                            Content |-> fs[d][RootLoc(CoreFile)].data])],
             peers[d])

PeerChanNext ==
  \/ \E p \in Remotes : AddPeer("device-1", p)
  \/ \E p \in Remotes : RemovePeer("device-1", p)
  \/ \E p \in Remotes : messageSender("device-1", p)
  \/ \E type \in {"create", "modify", "delete"} : broadcastRange("device-1", type)
  \/ \E p \in Remotes : broadcastNext("device-1", p)
  \/ broadcastSend("device-1")
  \/ broadcastDone("device-1")
  \/ \E p \in Remotes : coreHandleFileRequest("device-1", p)

PeerChanSpec == PeerChanInit /\ [][PeerChanNext]_vars

\* C40: under every interleaving of AddPeer and RemovePeer with
\* broadcastEvent and handleFileRequest, no message is sent on a peer's send
\* channel after RemovePeer has closed it.
C40_NoSendAfterClose ==
  life["device-1"].crash # "send on closed channel"
=============================================================================
